---- MODULE Spec2Model ----
(***************************************************************************)
(* FunnyFunnel: the lead store and its HTTP handlers (app/routes.py,       *)
(* app/models.py), the research collaborator (app/perplexity.py) and the   *)
(* StepStone retrieval (app/stepstone.py), as a state machine.             *)
(*                                                                         *)
(* Spec        the lead store driven by the API handlers                   *)
(* SpecSearch  one StepStoneService.search_jobs call, step by step         *)
(***************************************************************************)
EXTENDS Integers, Sequences, FiniteSets, TLC

VARIABLES
    leads,      \* the leads table: id -> row, for the ids that exist
    nextId,     \* the primary key the next INSERT gets
    now,        \* datetime.utcnow(), advancing with every request
    api_key,    \* PerplexityService.api_key: TRUE when PERPLEXITY_API_KEY is set
    last,       \* the last request and its response
    pc,         \* search_jobs: where the call stands
    args,       \* search_jobs: the arguments of the call
    page,       \* _scrape_jobs: the loop variable
    all_jobs,   \* _scrape_jobs: the records accumulated so far
    parsed,     \* every record _parse_search_results returned in this call
    log,        \* the fetches (with the body received and the records parsed
                \* from it) and the sleeps of this call, in order
    result,     \* what search_jobs returned
    sessions    \* the requests in flight, one SQLAlchemy session per worker:
                \* the row each loaded and has not yet committed

leadVars == <<leads, nextId, now, api_key, last>>
searchVars == <<pc, args, page, all_jobs, parsed, log, result>>
vars == <<leads, nextId, now, api_key, last, pc, args, page, all_jobs, parsed, log, result,
          sessions>>

\* ------------------------------------------------------------------ bounds

MaxClock == 3       \* requests served in one behaviour
MaxLeads == 2       \* POST /leads is tried while the table holds fewer rows
NumDemoLeads == 2   \* how many entries of seed_demo_data's list are modelled
MaxPagesArg == 3    \* the largest max_pages argument tried
NumDemoJobs == 2    \* how many entries of DEMO_JOBS are modelled

\* ------------------------------------------------------------ Python values

\* Python's None (JSON null), kept apart from every string the program builds.
None == "<None>"

\* bool(x) of a str-or-None value: None and '' are falsy.
Truthy(x) == x # None /\ x # ""

\* `a or b`
Or(a, b) == IF Truthy(a) THEN a ELSE b

\* str(x) as an f-string formats it
Str(x) == IF x = None THEN "None" ELSE x

\* dict.get(key, default) on a JSON object, a function from its keys
Get(data, key, default) == IF key \in DOMAIN data THEN data[key] ELSE default

\* ','.join(items)
RECURSIVE Join(_)
Join(items) ==
    IF Len(items) = 0 THEN ""
    ELSE IF Len(items) = 1 THEN items[1]
    ELSE items[1] \o "," \o Join(Tail(items))

\* The keywords value of a request body is a JSON list, a JSON string or null.
JsonList(items) == [kind |-> "list", items |-> items]
JsonStr(s) == [kind |-> "str", s |-> s]
JsonNull == [kind |-> "null"]

\* ','.join(v) if isinstance(v, list) else v
KeywordsColumn(v) ==
    IF v.kind = "list" THEN Join(v.items)
    ELSE IF v.kind = "str" THEN v.s
    ELSE None

\* ------------------------------------------------------------------ models.py

NEU == "neu"
AKTIVIERT == "aktiviert"
RECHERCHIERT == "recherchiert"
ANSCHREIBEN_ERSTELLT == "anschreiben_erstellt"
ANGESCHRIEBEN == "angeschrieben"
ANTWORT_ERHALTEN == "antwort_erhalten"

LeadStatus == <<NEU, AKTIVIERT, RECHERCHIERT, ANSCHREIBEN_ERSTELLT, ANGESCHRIEBEN, ANTWORT_ERHALTEN>>

get_status_options == {LeadStatus[i] : i \in 1..Len(LeadStatus)}

\* Lead(...): the row a constructor call inserts; columns not passed are NULL,
\* the timestamps default to utcnow.
Lead(titel, quelle, quelle_url, keywords, textvorschau, firmenname, status, t) ==
    [ titel |-> titel, quelle |-> quelle, quelle_url |-> quelle_url,
      keywords |-> keywords, textvorschau |-> textvorschau, volltext |-> None,
      firmenname |-> firmenname, firmen_website |-> None, firmen_adresse |-> None,
      firmen_email |-> None, ansprechpartner_name |-> None,
      ansprechpartner_rolle |-> None, ansprechpartner_linkedin |-> None,
      ansprechpartner_quelle |-> None, anschreiben |-> None,
      status |-> status, erstellt_am |-> t, aktualisiert_am |-> t ]

\* A commit that writes the row without the onupdate stamp.
Commit_NoStamp(old, new, t) == new

\* db.session.commit() of one loaded row: an UPDATE is emitted only when a column
\* value differs from the loaded one, and only then onupdate stamps aktualisiert_am.
Commit(old, new, t) ==
    IF new = old THEN old ELSE [new EXCEPT !.aktualisiert_am = t]

\* The id an INSERT gets. The default database is SQLite (app/__init__.py:20)
\* and id is a plain INTEGER PRIMARY KEY, the rowid: one more than the largest
\* id in the table, 1 for an empty table.
NextRowid(table) ==
    IF DOMAIN table = {} THEN 1
    ELSE (CHOOSE i \in DOMAIN table : \A j \in DOMAIN table : j <= i) + 1

\* titel is nullable=False: a commit that would store NULL there raises.
IntegrityError(row) == row.titel = None

\* ------------------------------------------------------------- perplexity.py

\* PerplexityService._call_api: raises ValueError before any request when no key
\* is configured. No handler of routes.py calls the service.
_call_api(key) == IF ~key THEN "ValueError" ELSE "response"

\* ------------------------------------------------------------------ routes.py

\* The request bodies tried for POST /leads.
CreateBodies ==
    { [titel |-> "AI Engineer", quelle_url |-> "https://x/y",
       keywords |-> JsonList(<<"AI", "LLM">>),
       textvorschau |-> "We need an AI Engineer", firmenname |-> "Acme GmbH"],
      [titel |-> "Data Analyst", quelle |-> "Indeed", keywords |-> JsonStr("KI"),
       status |-> ANGESCHRIEBEN],
      [firmenname |-> "Acme GmbH"] }

\* The values a client may send as a status: the six members, an unknown
\* string and null.
StatusInputs == get_status_options \cup {"bogus", None}

\* The request bodies tried for PUT /leads/<id>: the empty object, bodies with
\* one key, and bodies with several.
UpdateBodies ==
    { <<>> }
    \cup { "status" :> s : s \in {AKTIVIERT, RECHERCHIERT, "bogus", None} }
    \cup { "titel" :> None,
           "firmen_website" :> None,
           [status |-> AKTIVIERT, firmen_website |-> "https://acme.example",
            ansprechpartner_name |-> "Eva Klein"],
           [status |-> AKTIVIERT, firmen_website |-> "", firmen_email |-> ""],
           [titel |-> "Data Analyst", quelle_url |-> "https://x/z",
            keywords |-> JsonList(<<"GenAI">>), textvorschau |-> "",
            volltext |-> "Full text", firmenname |-> None,
            firmen_adresse |-> "Foo 1", firmen_email |-> "hr@acme.example",
            ansprechpartner_rolle |-> "CFO",
            ansprechpartner_linkedin |-> "https://linkedin.com/in/eva-klein",
            ansprechpartner_quelle |-> "Xing", anschreiben |-> "Hallo"] }

\* The columns update_lead copies from the body, one `if key in data` each.
UpdateKeys ==
    { "titel", "quelle_url", "keywords", "textvorschau", "volltext", "firmenname",
      "firmen_website", "firmen_adresse", "firmen_email", "ansprechpartner_name",
      "ansprechpartner_rolle", "ansprechpartner_linkedin", "ansprechpartner_quelle",
      "anschreiben", "status" }

\* The request bodies tried for POST /leads/<id>/generate-letter: each sender
\* key missing, null or given.
LetterBodies ==
    { <<>>,
      "absender_name" :> "Max Muster",
      ("absender_name" :> None) @@ ("absender_firma" :> "Muster AG"),
      ("absender_name" :> "Max Muster") @@ ("absender_firma" :> None) }

\* The request bodies tried for PUT /leads/<id>/status.
StatusBodies == { <<>> } \cup { "status" :> s : s \in StatusInputs }

\* The ids a request may name: every id handed out so far and the next one.
RequestIds == 1..nextId

\* str.lower().replace(' ', '-') on the company names that occur.
CompanySlug(name) ==
    CASE name = "Acme GmbH" -> "acme-gmbh"
      [] name = "Beta AG" -> "beta-ag"
      [] name = "TechVision GmbH" -> "techvision-gmbh"
      [] name = "Digital Solutions AG" -> "digital-solutions-ag"
      [] name = "Innovation Hub GmbH" -> "innovation-hub-gmbh"
      [] OTHER -> name

\* research_lead's simulated full text (umlauts transliterated).
Volltext(lead) ==
    "\n" \o Or(lead.textvorschau, lead.titel)
    \o "\n"
    \o "\n"
    \o "Wir suchen eine/n engagierte/n Mitarbeiter/in fuer unser wachsendes Team.\n"
    \o "\n"
    \o "Ihre Aufgaben:\n"
    \o "- Entwicklung und Implementierung von KI-Loesungen\n"
    \o "- Zusammenarbeit mit cross-funktionalen Teams\n"
    \o "- Evaluation neuer Technologien im Bereich GenAI und Copilot\n"
    \o "\n"
    \o "Ihr Profil:\n"
    \o "- Erfahrung mit Machine Learning und KI-Technologien\n"
    \o "- Kenntnisse in Python, TensorFlow oder PyTorch\n"
    \o "- Begeisterung fuer innovative Technologien\n"
    \o "\n"
    \o "Wir bieten:\n"
    \o "- Flexible Arbeitszeiten\n"
    \o "- Moderne Arbeitsumgebung\n"
    \o "- Weiterbildungsmoeglichkeiten\n"

\* The lists research_lead draws the contact from (umlauts transliterated).
ansprechpartner_namen ==
    <<"Dr. Thomas Mueller", "Sarah Schmidt", "Michael Weber", "Anna Fischer", "Christian Bauer">>

rollen == <<"CEO", "CTO", "CIO", "Head of Learning & Development", "Chief Digital Officer">>

\* name.lower().replace(' ', '-').replace('.', '')
NameSlug(name) ==
    CASE name = "Dr. Thomas Mueller" -> "dr-thomas-mueller"
      [] name = "Sarah Schmidt" -> "sarah-schmidt"
      [] name = "Michael Weber" -> "michael-weber"
      [] name = "Anna Fischer" -> "anna-fischer"
      [] name = "Christian Bauer" -> "christian-bauer"
      [] OTHER -> name

\* The letter generate_letter writes (umlauts transliterated).
LetterText(lead, absender_name, absender_firma) ==
    "Sehr geehrte/r " \o Or(lead.ansprechpartner_name, "Damen und Herren") \o ",\n"
    \o "\n"
    \o "mit grossem Interesse habe ich Ihre Stellenanzeige \"" \o Str(lead.titel) \o "\" auf " \o Str(lead.quelle) \o " gelesen.\n"
    \o "\n"
    \o "Als Experte im Bereich KI und digitale Transformation bin ich ueberzeugt, dass ich " \o Or(lead.firmenname, "Ihr Unternehmen") \o " bei der erfolgreichen Implementierung von KI-Loesungen unterstuetzen kann.\n"
    \o "\n"
    \o "Besonders angesprochen hat mich:\n"
    \o "- Der Fokus auf innovative KI-Technologien\n"
    \o "- Die Moeglichkeit, an zukunftsweisenden Projekten mitzuarbeiten\n"
    \o "- Die Vision Ihres Unternehmens im Bereich digitaler Innovation\n"
    \o "\n"
    \o "Ich wuerde mich sehr freuen, in einem persoenlichen Gespraech zu erlaeutern, wie ich " \o Or(lead.firmenname, "Ihr Unternehmen") \o " mit meiner Expertise unterstuetzen kann.\n"
    \o "\n"
    \o "Mit freundlichen Gruessen\n"
    \o Str(absender_name) \o "\n"
    \o Str(absender_firma) \o "\n"

\* seed_demo_data's demo_leads, the first three in list order (umlauts
\* transliterated).
demo_leads_all ==
    << [titel |-> "AI Engineer - GenAI & Large Language Models (m/w/d)", quelle |-> "StepStone",
        quelle_url |-> "https://www.stepstone.de/stellenangebote--AI-Engineer-GenAI-Berlin",
        keywords |-> "GenAI,LLM,Python,Machine Learning",
        textvorschau |-> "Wir suchen einen erfahrenen AI Engineer fuer unser GenAI-Team...",
        firmenname |-> "TechVision GmbH"],
       [titel |-> "Senior Developer - Microsoft Copilot Integration", quelle |-> "StepStone",
        quelle_url |-> "https://www.stepstone.de/stellenangebote--Senior-Developer-Copilot-Muenchen",
        keywords |-> "Copilot,Microsoft,Azure,Integration",
        textvorschau |-> "Fuer unsere Digitalisierungsabteilung suchen wir einen Senior Developer...",
        firmenname |-> "Digital Solutions AG"],
       [titel |-> "KI-Projektmanager (m/w/d) - Schwerpunkt ChatGPT", quelle |-> "StepStone",
        quelle_url |-> "https://www.stepstone.de/stellenangebote--KI-Projektmanager-Hamburg",
        keywords |-> "KI,ChatGPT,Projektmanagement,Agile",
        textvorschau |-> "Als KI-Projektmanager leiten Sie innovative Projekte im Bereich ChatGPT...",
        firmenname |-> "Innovation Hub GmbH"] >>

demo_leads == SubSeq(demo_leads_all, 1, NumDemoLeads)

\* Lead.query.filter_by(titel=t).first() is not None
ExistsTitel(table, t) == \E i \in DOMAIN table : table[i].titel = t

\* The for loop of seed_demo_data: one pending insert per demo lead whose titel
\* no stored or pending lead has.
RECURSIVE SeedLoop(_, _, _, _)
SeedLoop(rows, next, todo, t) ==
    IF Len(todo) = 0 THEN [rows |-> rows, next |-> next]
    ELSE LET d == Head(todo)
         IN  IF ExistsTitel(rows, d.titel)
             THEN SeedLoop(rows, next, Tail(todo), t)
             ELSE SeedLoop(rows @@ (next :> Lead(d.titel, d.quelle, d.quelle_url, d.keywords,
                                                 d.textvorschau, d.firmenname, NEU, t)),
                           next + 1, Tail(todo), t)

Response(op, id, code, data) == [op |-> op, id |-> id, code |-> code, data |-> data]

\* The workers that serve requests side by side, each with a session of its own.
Workers == {"w1", "w2"}

\* A worker between two requests.
Idle == [op |-> "idle"]

\* The table without row id.
Without(table, id) == [i \in DOMAIN table \ {id} |-> table[i]]

\* GET /api/leads/<id>
get_lead(id) ==
    /\ now < MaxClock
    /\ now' = now + 1
    /\ last' = Response("get", id, IF id \in DOMAIN leads THEN 200 ELSE 404, <<>>)
    /\ UNCHANGED <<leads, nextId, api_key>>
    /\ UNCHANGED <<searchVars, sessions>>

\* A constructor call that takes the status from the request body.
NewLead_StatusFromBody(data, t) ==
    Lead(Get(data, "titel", None), Get(data, "quelle", "StepStone"),
         Get(data, "quelle_url", None), KeywordsColumn(Get(data, "keywords", JsonNull)),
         Get(data, "textvorschau", None), Get(data, "firmenname", None),
         Get(data, "status", NEU), t)

\* The Lead(...) call of create_lead: six columns from the body, the status fixed.
NewLead(data, t) ==
    Lead(Get(data, "titel", None), Get(data, "quelle", "StepStone"),
         Get(data, "quelle_url", None), KeywordsColumn(Get(data, "keywords", JsonNull)),
         Get(data, "textvorschau", None), Get(data, "firmenname", None),
         NEU, t)

\* POST /api/leads
create_lead(data) ==
    /\ now < MaxClock
    /\ Cardinality(DOMAIN leads) < MaxLeads
    /\ now' = now + 1
    /\ LET lead == NewLead(data, now')
       IN  IF IntegrityError(lead)
           THEN /\ last' = Response("create", nextId, 500, data)
                /\ UNCHANGED <<leads, nextId>>
           ELSE /\ leads' = leads @@ (nextId :> lead)
                /\ nextId' = nextId + 1
                /\ last' = Response("create", nextId, 201, data)
    /\ UNCHANGED api_key
    /\ UNCHANGED <<searchVars, sessions>>

\* The row after update_lead's assignments.
Updated(lead, data) ==
    [f \in DOMAIN lead |->
        IF f \in UpdateKeys /\ f \in DOMAIN data
        THEN IF f = "keywords" THEN KeywordsColumn(data[f]) ELSE data[f]
        ELSE lead[f]]

\* PUT /api/leads/<id>
update_lead(id, data) ==
    /\ now < MaxClock
    /\ now' = now + 1
    /\ IF id \notin DOMAIN leads
       THEN /\ last' = Response("update", id, 404, data)
            /\ UNCHANGED leads
       ELSE LET new == Updated(leads[id], data)
            IN  IF IntegrityError(new)
                THEN /\ last' = Response("update", id, 500, data)
                     /\ UNCHANGED leads
                ELSE /\ leads' = [leads EXCEPT ![id] = Commit(leads[id], new, now')]
                     /\ last' = Response("update", id, 200, data)
    /\ UNCHANGED <<nextId, api_key>>
    /\ UNCHANGED <<searchVars, sessions>>

\* A guard that lets an activated lead be activated again.
CanActivate_Reentrant(lead) == lead.status \in {NEU, AKTIVIERT}

\* The guard of activate_lead.
CanActivate(lead) == lead.status = NEU

\* POST /api/leads/<id>/activate
activate_lead(id) ==
    /\ now < MaxClock
    /\ now' = now + 1
    /\ IF id \notin DOMAIN leads
       THEN /\ last' = Response("activate", id, 404, <<>>)
            /\ UNCHANGED leads
       ELSE IF ~CanActivate(leads[id])
       THEN /\ last' = Response("activate", id, 400, <<>>)
            /\ UNCHANGED leads
       ELSE /\ leads' = [leads EXCEPT ![id] =
                            Commit(@, [@ EXCEPT !.status = AKTIVIERT], now')]
            /\ last' = Response("activate", id, 200, <<>>)
    /\ UNCHANGED <<nextId, api_key>>
    /\ UNCHANGED <<searchVars, sessions>>

\* The looser guard: research from any status.
CanResearch_AnyStatus(lead) == TRUE

\* The guard of research_lead.
CanResearch(lead) == lead.status \in {AKTIVIERT}

\* An assignment without the `if not` test.
FillIfEmpty_Overwrite(old, value) == value

\* `if not lead.<column>: lead.<column> = value`
FillIfEmpty(old, value) == IF ~Truthy(old) THEN value ELSE old

\* The row after research_lead's assignments, with the contact drawn.
Researched(lead, name, rolle) ==
    [lead EXCEPT
        !.volltext = Volltext(lead),
        !.firmen_website =
            FillIfEmpty(@, IF Truthy(lead.firmenname)
                           THEN "https://www." \o CompanySlug(lead.firmenname) \o ".de"
                           ELSE None),
        !.firmen_adresse = FillIfEmpty(@, "Musterstrasse 123, 10115 Berlin"),
        !.firmen_email =
            FillIfEmpty(@, IF Truthy(lead.firmenname)
                           THEN "info@" \o CompanySlug(lead.firmenname) \o ".de"
                           ELSE None),
        !.ansprechpartner_name = name,
        !.ansprechpartner_rolle = rolle,
        !.ansprechpartner_linkedin = "https://linkedin.com/in/" \o NameSlug(name),
        !.ansprechpartner_quelle = "LinkedIn",
        !.status = RECHERCHIERT]

\* POST /api/leads/<id>/research
research_lead(id) ==
    /\ now < MaxClock
    /\ now' = now + 1
    /\ IF id \notin DOMAIN leads
       THEN /\ last' = Response("research", id, 404, <<>>)
            /\ UNCHANGED leads
       ELSE IF ~CanResearch(leads[id])
       THEN /\ last' = Response("research", id, 400, <<>>)
            /\ UNCHANGED leads
       ELSE \E n \in DOMAIN ansprechpartner_namen, r \in DOMAIN rollen :
                /\ leads' = [leads EXCEPT ![id] =
                                Commit(@, Researched(@, ansprechpartner_namen[n], rollen[r]), now')]
                /\ last' = Response("research", id, 200, <<>>)
    /\ UNCHANGED <<nextId, api_key>>
    /\ UNCHANGED <<searchVars, sessions>>

\* A guard that forgets the statuses after ANSCHREIBEN_ERSTELLT.
CanGenerateLetter_Strict(lead) == lead.status \in {RECHERCHIERT, ANSCHREIBEN_ERSTELLT}

\* A guard that also lets a lead that was only activated get its letter.
CanGenerateLetter_FromActivated(lead) ==
    lead.status \in {AKTIVIERT, RECHERCHIERT, ANSCHREIBEN_ERSTELLT, ANGESCHRIEBEN,
                     ANTWORT_ERHALTEN}

\* The guard of generate_letter.
CanGenerateLetter(lead) ==
    lead.status \in {RECHERCHIERT, ANSCHREIBEN_ERSTELLT, ANGESCHRIEBEN, ANTWORT_ERHALTEN}

\* The row after generate_letter's assignments.
WithLetter(lead, data) ==
    [lead EXCEPT
        !.anschreiben = LetterText(lead, Get(data, "absender_name", "[Ihr Name]"),
                                   Get(data, "absender_firma", "[Ihre Firma]")),
        !.status = ANSCHREIBEN_ERSTELLT]

\* POST /api/leads/<id>/generate-letter
generate_letter(id, data) ==
    /\ now < MaxClock
    /\ now' = now + 1
    /\ IF id \notin DOMAIN leads
       THEN /\ last' = Response("generate_letter", id, 404, data)
            /\ UNCHANGED leads
       ELSE IF ~CanGenerateLetter(leads[id])
       THEN /\ last' = Response("generate_letter", id, 400, data)
            /\ UNCHANGED leads
       ELSE /\ leads' = [leads EXCEPT ![id] = Commit(@, WithLetter(@, data), now')]
            /\ last' = Response("generate_letter", id, 200, data)
    /\ UNCHANGED <<nextId, api_key>>
    /\ UNCHANGED <<searchVars, sessions>>

\* A check that accepts whatever value is supplied.
ValidStatus_AnySupplied(new_status) == new_status # None

\* The check of update_status: the requested value is one of the options.
ValidStatus(new_status) == new_status \in get_status_options

\* PUT /api/leads/<id>/status
update_status(id, data) ==
    /\ now < MaxClock
    /\ now' = now + 1
    /\ LET new_status == Get(data, "status", None)
       IN  IF id \notin DOMAIN leads
           THEN /\ last' = Response("set_status", id, 404, data)
                /\ UNCHANGED leads
           ELSE IF ~ValidStatus(new_status)
           THEN /\ last' = Response("set_status", id, 400, data)
                /\ UNCHANGED leads
           ELSE /\ leads' = [leads EXCEPT ![id] =
                                Commit(@, [@ EXCEPT !.status = new_status], now')]
                /\ last' = Response("set_status", id, 200, data)
    /\ UNCHANGED <<nextId, api_key>>
    /\ UNCHANGED <<searchVars, sessions>>

\* DELETE /api/leads/<id>
delete_lead(id) ==
    /\ now < MaxClock
    /\ now' = now + 1
    /\ IF id \notin DOMAIN leads
       THEN /\ last' = Response("delete", id, 404, <<>>)
            /\ UNCHANGED leads
            /\ UNCHANGED nextId
       ELSE /\ leads' = Without(leads, id)
            /\ nextId' = NextRowid(leads')
            /\ last' = Response("delete", id, 200, <<>>)
    /\ UNCHANGED api_key
    /\ UNCHANGED <<searchVars, sessions>>

\* POST /api/seed-demo
seed_demo_data ==
    /\ now < MaxClock
    /\ now' = now + 1
    /\ LET out == SeedLoop(leads, nextId, demo_leads, now')
       IN  /\ leads' = out.rows
           /\ nextId' = out.next
    /\ last' = Response("seed", 0, 200, <<>>)
    /\ UNCHANGED api_key
    /\ UNCHANGED <<searchVars, sessions>>

\* ------------------------------------------------------------ specification

SearchIdle ==
    /\ pc = "idle"
    /\ args = <<>>
    /\ page = 0
    /\ all_jobs = <<>>
    /\ parsed = <<>>
    /\ log = <<>>
    /\ result = <<>>

Init ==
    /\ leads = <<>>
    /\ nextId = 1
    /\ now = 0
    /\ api_key \in BOOLEAN
    /\ last = Response("start", 0, 0, <<>>)
    /\ SearchIdle
    /\ sessions = [w \in Workers |-> Idle]

Next ==
    \/ \E id \in RequestIds : get_lead(id)
    \/ \E data \in CreateBodies : create_lead(data)
    \/ \E id \in RequestIds, data \in UpdateBodies : update_lead(id, data)
    \/ \E id \in RequestIds : activate_lead(id)
    \/ \E id \in RequestIds : research_lead(id)
    \/ \E id \in RequestIds, data \in LetterBodies : generate_letter(id, data)
    \/ \E id \in RequestIds, data \in StatusBodies : update_status(id, data)
    \/ \E id \in RequestIds : delete_lead(id)
    \/ seed_demo_data

Spec == Init /\ [][Next]_vars

\* --------------------------------------------------------------- text values
\* The texts the retrieval computes on (titles, URLs, previews, filters) are
\* sequences of characters, so that lower(), `in`, startswith() and slicing are
\* computed; umlauts and bullets are written as one ASCII character each.

\* None where a text is expected.
NoText == <<"<None>">>

\* bool(s) of a text-or-None value
TruthyText(s) == s # NoText /\ s # <<>>

UpperChars == <<"A", "B", "C", "D", "E", "F", "G", "H", "I", "J", "K", "L", "M", "N", "O", "P", "Q", "R",
           "S", "T", "U", "V", "W", "X", "Y", "Z">>

LowerChars == <<"a", "b", "c", "d", "e", "f", "g", "h", "i", "j", "k", "l", "m", "n", "o", "p", "q", "r",
           "s", "t", "u", "v", "w", "x", "y", "z">>

\* The lower-case and upper-case forms of the letters.
LowerOf == [c \in {UpperChars[i] : i \in DOMAIN UpperChars} |->
              LowerChars[CHOOSE i \in DOMAIN UpperChars : UpperChars[i] = c]]

UpperOf == [c \in {LowerChars[i] : i \in DOMAIN LowerChars} |->
              UpperChars[CHOOSE i \in DOMAIN LowerChars : LowerChars[i] = c]]

lower_char(c) == IF c \in DOMAIN LowerOf THEN LowerOf[c] ELSE c

upper_char(c) == IF c \in DOMAIN UpperOf THEN UpperOf[c] ELSE c

IsLetter(c) == lower_char(c) # c \/ upper_char(c) # c

\* str.lower()
lower(s) == [i \in 1..Len(s) |-> lower_char(s[i])]

\* str.title(): a letter that follows a letter is lowered, any other is raised
title(s) ==
    [i \in 1..Len(s) |->
        IF i > 1 /\ IsLetter(s[i - 1]) THEN lower_char(s[i]) ELSE upper_char(s[i])]

\* `sub in s`
Contains(s, sub) ==
    \/ Len(sub) = 0
    \/ \E i \in 1..(Len(s) - Len(sub) + 1) :
            s[i] = sub[1] /\ SubSeq(s, i, i + Len(sub) - 1) = sub

\* s.startswith(prefix)
startswith(s, prefix) ==
    Len(s) >= Len(prefix) /\ SubSeq(s, 1, Len(prefix)) = prefix

\* s[:n]
Truncate(s, n) == SubSeq(s, 1, IF Len(s) < n THEN Len(s) ELSE n)

\* s.replace(',', ' ')
CommasToSpaces(s) == [i \in 1..Len(s) |-> IF s[i] = "," THEN " " ELSE s[i]]

\* s.split(): the maximal runs of non-blank characters, in order
RECURSIVE split(_, _, _)
split(s, word, out) ==
    IF Len(s) = 0 THEN (IF Len(word) = 0 THEN out ELSE Append(out, word))
    ELSE IF Head(s) = " " \/ Head(s) = "\n"
         THEN split(Tail(s), <<>>, IF Len(word) = 0 THEN out ELSE Append(out, word))
         ELSE split(Tail(s), Append(word, Head(s)), out)

Digits == <<"0", "1", "2", "3", "4", "5", "6", "7", "8", "9">>

\* str(n) of a natural number
RECURSIVE IntStr(_)
IntStr(n) == IF n < 10 THEN <<Digits[n + 1]>> ELSE IntStr(n \div 10) \o <<Digits[(n % 10) + 1]>>

\* urllib.parse.quote_plus on letters, digits, '_.-~', blanks and commas
quote_plus(s) ==
    IF Len(s) = 0 THEN <<>>
    ELSE LET enc(c) == IF c = " " THEN <<"+">>
                       ELSE IF c = "," THEN <<"%", "2", "C">>
                       ELSE <<c>>
             F[i \in 0..Len(s)] == IF i = 0 THEN <<>> ELSE F[i - 1] \o enc(s[i])
         IN  F[Len(s)]

\* '&'.join of key=value pairs, as urlencode writes them
RECURSIVE urlencode(_)
urlencode(params) ==
    IF Len(params) = 0 THEN <<>>
    ELSE params[1][1] \o <<"=">> \o params[1][2]
         \o (IF Len(params) = 1 THEN <<>> ELSE <<"&">> \o urlencode(Tail(params)))

\* ---------------------------------------------------------------- stepstone.py

BASE_URL == <<"h", "t", "t", "p", "s", ":", "/", "/", "w", "w", "w", ".", "s", "t", "e", "p", "s", "t",
           "o", "n", "e", ".", "d", "e">>

SEARCH_URL == BASE_URL \o <<"/", "j", "o", "b", "s">>

AI_KEYWORDS ==
    << <<"K", "I">>, <<"A", "I">>, <<"K", "u", "n", "s", "t", "l", "i", "c", "h", "e", " ", "I", "n", "t", "e", "l", "l", "i",
           "g", "e", "n", "z">>, <<"A", "r", "t", "i", "f", "i", "c", "i", "a", "l", " ", "I", "n", "t", "e", "l", "l", "i",
           "g", "e", "n", "c", "e">>,
       <<"M", "a", "c", "h", "i", "n", "e", " ", "L", "e", "a", "r", "n", "i", "n", "g">>, <<"M", "L">>, <<"D", "e", "e", "p", " ", "L", "e", "a", "r", "n", "i", "n", "g">>, <<"G", "e", "n", "A", "I">>, <<"G", "e", "n", "e", "r", "a", "t", "i", "v", "e", " ", "A", "I">>,
       <<"L", "L", "M">>, <<"L", "a", "r", "g", "e", " ", "L", "a", "n", "g", "u", "a", "g", "e", " ", "M", "o", "d",
           "e", "l">>, <<"C", "h", "a", "t", "G", "P", "T">>, <<"G", "P", "T">>, <<"C", "o", "p", "i", "l", "o", "t">>,
       <<"N", "L", "P">>, <<"N", "a", "t", "u", "r", "a", "l", " ", "L", "a", "n", "g", "u", "a", "g", "e", " ", "P",
           "r", "o", "c", "e", "s", "s", "i", "n", "g">>, <<"C", "o", "m", "p", "u", "t", "e", "r", " ", "V", "i", "s", "i", "o", "n">>,
       <<"N", "e", "u", "r", "a", "l", " ", "N", "e", "t", "w", "o", "r", "k">>, <<"D", "a", "t", "a", " ", "S", "c", "i", "e", "n", "c", "e">>, <<"P", "r", "o", "m", "p", "t", " ", "E", "n", "g", "i", "n", "e", "e", "r">> >>

\* StepStoneService.build_search_url; a radius or date_filter of 0 stands for
\* a falsy argument.
build_search_url(keywords, location, radius, pageno, date_filter) ==
    LET url == SEARCH_URL
               \o (IF TruthyText(keywords) THEN <<"/">> \o quote_plus(keywords) ELSE <<>>)
               \o (IF TruthyText(location) THEN <<"/", "i", "n", "-">> \o quote_plus(location) ELSE <<>>)
        params == (IF radius # 0 THEN << <<<<"r", "a", "d", "i", "u", "s">>, IntStr(radius)>> >> ELSE <<>>)
                  \o (IF pageno > 1 THEN << <<<<"p", "a", "g", "e">>, IntStr(pageno)>> >> ELSE <<>>)
                  \o (IF date_filter # 0 THEN << <<<<"a", "g", "e">>, IntStr(date_filter)>> >> ELSE <<>>)
    IN  IF Len(params) > 0 THEN url \o <<"?">> \o urlencode(params) ELSE url

\* One job card of a results page, as the selectors of _extract_job_from_card
\* see it: the element name, the stripped text of the first title element
\* (NoText: no such element), the card's own text, the href of the first inner
\* anchor to a posting (NoText: none), the card's own href attribute, and the
\* stripped texts of the company, location and snippet elements.
Card(name, title_text, own_text, inner_href, own_href, company, location, snippet) ==
    [ name |-> name, title_text |-> title_text, own_text |-> own_text,
      inner_href |-> inner_href, own_href |-> own_href,
      company |-> company, location |-> location, snippet |-> snippet ]

\* job.get(key)
JobGet(job, key) == IF key \in DOMAIN job THEN job[key] ELSE NoText

\* The preview keeps this many characters.
SnippetMax == 500

\* The title _extract_job_from_card finds, NoText when it finds none.
CardTitle(card) ==
    IF card.title_text # NoText THEN card.title_text
    ELSE IF card.name = "a" THEN card.own_text
    ELSE NoText

\* A link taken as the page writes it, not resolved against BASE_URL.
CardUrl_Unresolved(card) ==
    IF card.inner_href # NoText THEN card.inner_href
    ELSE IF card.name = "a" THEN card.own_href
    ELSE NoText

\* The source URL _extract_job_from_card resolves, NoText when it resolves none.
CardUrl(card) ==
    LET href == IF card.inner_href # NoText THEN card.inner_href
                ELSE IF card.name = "a" THEN card.own_href
                ELSE NoText
    IN  IF ~TruthyText(href) THEN NoText
        ELSE IF startswith(href, <<"/">>) THEN BASE_URL \o href
        ELSE IF startswith(href, <<"h", "t", "t", "p">>) THEN href
        ELSE BASE_URL \o <<"/">> \o href

\* A tagger that compares the title as written with the terms as written.
TitleKeywords_CaseSensitive(titel) ==
    SelectSeq(AI_KEYWORDS, LAMBDA kw : Contains(titel, kw))

\* The vocabulary terms found in a title, in vocabulary order.
TitleKeywords(titel) ==
    SelectSeq(AI_KEYWORDS, LAMBDA kw : Contains(lower(titel), lower(kw)))

\* StepStoneService._extract_job_from_card: the job dict, or NoText for None.
_extract_job_from_card(card) ==
    IF ~TruthyText(CardTitle(card)) THEN NoText
    ELSE IF ~TruthyText(CardUrl(card)) THEN NoText
    ELSE [quelle |-> "StepStone", keywords |-> TitleKeywords(CardTitle(card)),
          titel |-> CardTitle(card), quelle_url |-> CardUrl(card)]
         @@ (IF card.company # NoText THEN [firmenname |-> card.company] ELSE <<>>)
         @@ (IF card.location # NoText THEN [standort |-> card.location] ELSE <<>>)
         @@ (IF card.snippet # NoText
             THEN [textvorschau |-> Truncate(card.snippet, SnippetMax)] ELSE <<>>)

\* A results page, as the selector cascade of _parse_search_results sees it:
\* the cards each of its four selectors matches.
Html(testid, job_element, data_at, anchors) ==
    [testid |-> testid, job_element |-> job_element, data_at |-> data_at, anchors |-> anchors]

\* The cards of the first selector that matches any.
JobCards(html) ==
    IF Len(html.testid) > 0 THEN html.testid
    ELSE IF Len(html.job_element) > 0 THEN html.job_element
    ELSE IF Len(html.data_at) > 0 THEN html.data_at
    ELSE html.anchors

\* A loop that gives up the page at the first card that yields no record.
RECURSIVE ExtractAll_StopAtFailure(_)
ExtractAll_StopAtFailure(cards) ==
    IF Len(cards) = 0 THEN <<>>
    ELSE LET job == _extract_job_from_card(Head(cards))
         IN  IF job = NoText THEN <<>>
             ELSE <<job>> \o ExtractAll_StopAtFailure(Tail(cards))

\* The for loop of _parse_search_results: a card whose extraction yields None
\* (or raises, which the except branch turns into the same skip) adds nothing.
RECURSIVE ExtractAll(_)
ExtractAll(cards) ==
    IF Len(cards) = 0 THEN <<>>
    ELSE LET job == _extract_job_from_card(Head(cards))
         IN  (IF job # NoText THEN <<job>> ELSE <<>>) \o ExtractAll(Tail(cards))

\* StepStoneService._parse_search_results
_parse_search_results(html) == ExtractAll(JobCards(html))

\* The title filter of _scrape_jobs.
TitleFilter(jobs, job_title_filter) ==
    IF TruthyText(job_title_filter)
    THEN SelectSeq(jobs, LAMBDA j : Contains(lower(IF "titel" \in DOMAIN j THEN j.titel ELSE <<>>),
                                             lower(job_title_filter)))
    ELSE jobs

\* A return of all_jobs as accumulated, without the duplicate removal.
Unique_NoDedup(jobs, seen_urls) == jobs

\* The duplicate removal of _scrape_jobs: the first record of every quelle_url.
RECURSIVE Unique(_, _)
Unique(jobs, seen_urls) ==
    IF Len(jobs) = 0 THEN <<>>
    ELSE IF Head(jobs).quelle_url \in seen_urls THEN Unique(Tail(jobs), seen_urls)
    ELSE <<Head(jobs)>> \o Unique(Tail(jobs), seen_urls \cup {Head(jobs).quelle_url})

\* DEMO_JOBS, in list order.
DEMO_JOBS_all ==
    << [titel |-> <<"S", "e", "n", "i", "o", "r", " ", "A", "I", " ", "E", "n", "g", "i", "n", "e", "e", "r",
           " ", "-", " ", "L", "a", "r", "g", "e", " ", "L", "a", "n", "g", "u", "a", "g", "e",
           " ", "M", "o", "d", "e", "l", "s", " ", "(", "m", "/", "w", "/", "d", ")">>,
        firmenname |-> <<"T", "e", "c", "h", "V", "i", "s", "i", "o", "n", " ", "A", "I", " ", "G", "m", "b", "H">>,
        standort |-> <<"B", "e", "r", "l", "i", "n">>,
        textvorschau |-> <<"W", "i", "r", " ", "s", "u", "c", "h", "e", "n", " ", "e", "i", "n", "e", "n", " ", "e",
           "r", "f", "a", "h", "r", "e", "n", "e", "n", " ", "A", "I", " ", "E", "n", "g", "i",
           "n", "e", "e", "r", " ", "f", "u", "r", " ", "d", "i", "e", " ", "E", "n", "t", "w",
           "i", "c", "k", "l", "u", "n", "g", " ", "u", "n", "d", " ", "O", "p", "t", "i", "m",
           "i", "e", "r", "u", "n", "g", " ", "v", "o", "n", " ", "L", "L", "M", "-", "b", "a",
           "s", "i", "e", "r", "t", "e", "n", " ", "A", "n", "w", "e", "n", "d", "u", "n", "g",
           "e", "n", ".", "\n", "\n", "I", "h", "r", "e", " ", "A", "u", "f", "g", "a", "b",
           "e", "n", ":", "\n", "*", " ", "E", "n", "t", "w", "i", "c", "k", "l", "u", "n",
           "g", " ", "u", "n", "d", " ", "F", "i", "n", "e", "-", "T", "u", "n", "i", "n", "g",
           " ", "v", "o", "n", " ", "L", "a", "r", "g", "e", " ", "L", "a", "n", "g", "u", "a",
           "g", "e", " ", "M", "o", "d", "e", "l", "s", " ", "(", "G", "P", "T", "-", "4", ",",
           " ", "C", "l", "a", "u", "d", "e", ",", " ", "L", "l", "a", "m", "a", ")", "\n",
           "*", " ", "I", "n", "t", "e", "g", "r", "a", "t", "i", "o", "n", " ", "v", "o", "n",
           " ", "L", "L", "M", "s", " ", "i", "n", " ", "b", "e", "s", "t", "e", "h", "e", "n",
           "d", "e", " ", "U", "n", "t", "e", "r", "n", "e", "h", "m", "e", "n", "s", "a", "n",
           "w", "e", "n", "d", "u", "n", "g", "e", "n", "\n", "*", " ", "O", "p", "t", "i",
           "m", "i", "e", "r", "u", "n", "g", " ", "v", "o", "n", " ", "I", "n", "f", "e", "r",
           "e", "n", "c", "e", "-", "P", "i", "p", "e", "l", "i", "n", "e", "s", " ", "f", "u",
           "r", " ", "P", "r", "o", "d", "u", "k", "t", "i", "o", "n", "\n", "*", " ", "Z",
           "u", "s", "a", "m", "m", "e", "n", "a", "r", "b", "e", "i", "t", " ", "m", "i", "t",
           " ", "d", "e", "m", " ", "P", "r", "o", "d", "u", "k", "t", "t", "e", "a", "m", " ",
           "z", "u", "r", " ", "D", "e", "f", "i", "n", "i", "t", "i", "o", "n", " ", "v", "o",
           "n", " ", "A", "I", "-", "F", "e", "a", "t", "u", "r", "e", "s", "\n", "*", " ",
           "M", "e", "n", "t", "o", "r", "i", "n", "g", " ", "v", "o", "n", " ", "J", "u", "n",
           "i", "o", "r", "-", "E", "n", "t", "w", "i", "c", "k", "l", "e", "r", "n", "\n",
           "\n", "I", "h", "r", " ", "P", "r", "o", "f", "i", "l", ":", "\n", "*", " ", "M",
           "i", "n", "d", "e", "s", "t", "e", "n", "s", " ", "5", " ", "J", "a", "h", "r", "e",
           " ", "E", "r", "f", "a", "h", "r", "u", "n", "g", " ", "i", "n", " ", "M", "a", "c",
           "h", "i", "n", "e", " ", "L", "e", "a", "r", "n", "i", "n", "g", " ", "/", " ", "A",
           "I", "\n", "*", " ", "F", "u", "n", "d", "i", "e", "r", "t", "e", " ", "K", "e",
           "n", "n", "t", "n", "i", "s", "s", "e", " ", "i", "n", " ", "P", "y", "t", "h", "o",
           "n", ",", " ", "P", "y", "T", "o", "r", "c", "h", " ", "o", "d", "e", "r", " ", "T",
           "e", "n", "s", "o", "r", "F", "l", "o", "w", "\n", "*", " ", "E", "r", "f", "a",
           "h", "r", "u", "n", "g", " ", "m", "i", "t", " ", "L", "L", "M", "-", "A", "P", "I",
           "s", " ", "(", "O", "p", "e", "n", "A", "I", ",", " ", "A", "n", "t", "h", "r", "o",
           "p", "i", "c", ",", " ", "H", "u", "g", "g", "i", "n", "g", " ", "F", "a", "c", "e",
           ")", "\n", "*", " ", "K", "e", "n", "n", "t", "n", "i", "s", "s", "e", " ", "i",
           "n", " ", "M", "L", "O", "p", "s", " ", "u", "n", "d", " ", "C", "l", "o", "u", "d",
           "-", "I", "n", "f", "r", "a", "s", "t", "r", "u", "k", "t", "u", "r", " ", "(", "A",
           "W", "S", ",", " ", "G", "C", "P", ",", " ", "A", "z", "u", "r", "e", ")", "\n",
           "*", " ", "S", "e", "h", "r", " ", "g", "u", "t", "e", " ", "D", "e", "u", "t", "s",
           "c", "h", "-", " ", "u", "n", "d", " ", "E", "n", "g", "l", "i", "s", "c", "h", "k",
           "e", "n", "n", "t", "n", "i", "s", "s", "e", "\n", "\n", "W", "i", "r", " ", "b",
           "i", "e", "t", "e", "n", ":", "\n", "*", " ", "A", "t", "t", "r", "a", "k", "t",
           "i", "v", "e", "s", " ", "G", "e", "h", "a", "l", "t", ":", " ", "8", "5", ".", "0",
           "0", "0", " ", "-", " ", "1", "2", "0", ".", "0", "0", "0", " ", "E", "U", "R",
           "\n", "*", " ", "R", "e", "m", "o", "t", "e", "-", "F", "i", "r", "s", "t", " ",
           "K", "u", "l", "t", "u", "r", " ", "m", "i", "t", " ", "o", "p", "t", "i", "o", "n",
           "a", "l", "e", "m", " ", "B", "u", "r", "o", " ", "i", "n", " ", "B", "e", "r", "l",
           "i", "n", "-", "M", "i", "t", "t", "e", "\n", "*", " ", "3", "0", " ", "T", "a",
           "g", "e", " ", "U", "r", "l", "a", "u", "b", " ", "+", " ", "B", "i", "l", "d", "u",
           "n", "g", "s", "b", "u", "d", "g", "e", "t", "\n", "*", " ", "M", "o", "d", "e",
           "r", "n", "s", "t", "e", " ", "H", "a", "r", "d", "w", "a", "r", "e", " ", "u", "n",
           "d", " ", "S", "o", "f", "t", "w", "a", "r", "e", "-", "T", "o", "o", "l", "s",
           "\n", "*", " ", "R", "e", "g", "e", "l", "m", "a", "s", "i", "g", "e", " ", "T",
           "e", "a", "m", "-", "E", "v", "e", "n", "t", "s", " ", "u", "n", "d", " ", "K", "o",
           "n", "f", "e", "r", "e", "n", "z", "b", "e", "s", "u", "c", "h", "e">>,
        keywords |-> <<<<"A", "I">>, <<"L", "L", "M">>, <<"G", "P", "T">>, <<"M", "a", "c", "h", "i", "n", "e", " ", "L", "e", "a", "r", "n", "i", "n", "g">>>>],
       [titel |-> <<"M", "a", "c", "h", "i", "n", "e", " ", "L", "e", "a", "r", "n", "i", "n", "g", " ", "E",
           "n", "g", "i", "n", "e", "e", "r", " ", "-", " ", "C", "o", "m", "p", "u", "t", "e",
           "r", " ", "V", "i", "s", "i", "o", "n">>,
        firmenname |-> <<"A", "u", "t", "o", "m", "o", "t", "i", "v", "e", " ", "A", "I", " ", "S", "o", "l", "u",
           "t", "i", "o", "n", "s">>,
        standort |-> <<"M", "u", "n", "c", "h", "e", "n">>,
        textvorschau |-> <<"E", "n", "t", "w", "i", "c", "k", "l", "u", "n", "g", " ", "v", "o", "n", " ", "C", "o",
           "m", "p", "u", "t", "e", "r", " ", "V", "i", "s", "i", "o", "n", " ", "L", "o", "s",
           "u", "n", "g", "e", "n", " ", "f", "u", "r", " ", "a", "u", "t", "o", "n", "o", "m",
           "e", "s", " ", "F", "a", "h", "r", "e", "n", " ", "b", "e", "i", " ", "e", "i", "n",
           "e", "m", " ", "f", "u", "h", "r", "e", "n", "d", "e", "n", " ", "A", "u", "t", "o",
           "m", "o", "t", "i", "v", "e", "-", "Z", "u", "l", "i", "e", "f", "e", "r", "e", "r",
           ".", "\n", "\n", "I", "h", "r", "e", " ", "A", "u", "f", "g", "a", "b", "e", "n",
           ":", "\n", "*", " ", "E", "n", "t", "w", "i", "c", "k", "l", "u", "n", "g", " ",
           "v", "o", "n", " ", "O", "b", "j", "e", "k", "t", "e", "r", "k", "e", "n", "n", "u",
           "n", "g", "s", "-", " ", "u", "n", "d", " ", "T", "r", "a", "c", "k", "i", "n", "g",
           "-", "A", "l", "g", "o", "r", "i", "t", "h", "m", "e", "n", "\n", "*", " ", "T",
           "r", "a", "i", "n", "i", "n", "g", " ", "u", "n", "d", " ", "O", "p", "t", "i", "m",
           "i", "e", "r", "u", "n", "g", " ", "v", "o", "n", " ", "D", "e", "e", "p", " ", "L",
           "e", "a", "r", "n", "i", "n", "g", " ", "M", "o", "d", "e", "l", "l", "e", "n", " ",
           "f", "u", "r", " ", "E", "c", "h", "t", "z", "e", "i", "t", "-", "A", "n", "w", "e",
           "n", "d", "u", "n", "g", "e", "n", "\n", "*", " ", "I", "n", "t", "e", "g", "r",
           "a", "t", "i", "o", "n", " ", "v", "o", "n", " ", "C", "o", "m", "p", "u", "t", "e",
           "r", " ", "V", "i", "s", "i", "o", "n", " ", "i", "n", " ", "e", "i", "n", "g", "e",
           "b", "e", "t", "t", "e", "t", "e", " ", "S", "y", "s", "t", "e", "m", "e", "\n",
           "*", " ", "Z", "u", "s", "a", "m", "m", "e", "n", "a", "r", "b", "e", "i", "t", " ",
           "m", "i", "t", " ", "H", "a", "r", "d", "w", "a", "r", "e", "-", "T", "e", "a", "m",
           "s", " ", "f", "u", "r", " ", "o", "p", "t", "i", "m", "a", "l", "e", " ", "P", "e",
           "r", "f", "o", "r", "m", "a", "n", "c", "e", "\n", "*", " ", "E", "v", "a", "l",
           "u", "a", "t", "i", "o", "n", " ", "u", "n", "d", " ", "B", "e", "n", "c", "h", "m",
           "a", "r", "k", "i", "n", "g", " ", "v", "o", "n", " ", "M", "L", "-", "M", "o", "d",
           "e", "l", "l", "e", "n", "\n", "\n", "I", "h", "r", " ", "P", "r", "o", "f", "i",
           "l", ":", "\n", "*", " ", "M", "a", "s", "t", "e", "r", "/", "P", "h", "D", " ",
           "i", "n", " ", "I", "n", "f", "o", "r", "m", "a", "t", "i", "k", ",", " ", "M", "a",
           "t", "h", "e", "m", "a", "t", "i", "k", " ", "o", "d", "e", "r", " ", "v", "e", "r",
           "w", "a", "n", "d", "t", "e", "m", " ", "B", "e", "r", "e", "i", "c", "h", "\n",
           "*", " ", "3", "+", " ", "J", "a", "h", "r", "e", " ", "E", "r", "f", "a", "h", "r",
           "u", "n", "g", " ", "i", "n", " ", "C", "o", "m", "p", "u", "t", "e", "r", " ", "V",
           "i", "s", "i", "o", "n", " ", "u", "n", "d", " ", "D", "e", "e", "p", " ", "L", "e",
           "a", "r", "n", "i", "n", "g", "\n", "*", " ", "E", "x", "p", "e", "r", "t", "i",
           "s", "e", " ", "i", "n", " ", "P", "y", "T", "o", "r", "c", "h", "/", "T", "e", "n",
           "s", "o", "r", "F", "l", "o", "w", " ", "u", "n", "d", " ", "O", "p", "e", "n", "C",
           "V", "\n", "*", " ", "E", "r", "f", "a", "h", "r", "u", "n", "g", " ", "m", "i",
           "t", " ", "Y", "O", "L", "O", ",", " ", "F", "a", "s", "t", "e", "r", " ", "R", "-",
           "C", "N", "N", " ", "o", "d", "e", "r", " ", "a", "h", "n", "l", "i", "c", "h", "e",
           "n", " ", "A", "r", "c", "h", "i", "t", "e", "k", "t", "u", "r", "e", "n", "\n",
           "*", " ", "K", "e", "n", "n", "t", "n", "i", "s", "s", "e", " ", "i", "n", " ", "C",
           "+", "+", " ", "u", "n", "d", " ", "e", "i", "n", "g", "e", "b", "e", "t", "t", "e",
           "t", "e", "n", " ", "S", "y", "s", "t", "e", "m", "e", "n", " ", "v", "o", "n", " ",
           "V", "o", "r", "t", "e", "i", "l", "\n", "\n", "W", "i", "r", " ", "b", "i", "e",
           "t", "e", "n", ":", "\n", "*", " ", "G", "e", "h", "a", "l", "t", ":", " ", "7",
           "5", ".", "0", "0", "0", " ", "-", " ", "1", "0", "0", ".", "0", "0", "0", " ", "E",
           "U", "R", "\n", "*", " ", "F", "l", "e", "x", "i", "b", "l", "e", " ", "A", "r",
           "b", "e", "i", "t", "s", "z", "e", "i", "t", "e", "n", ",", " ", "2", " ", "T", "a",
           "g", "e", " ", "H", "o", "m", "e", " ", "O", "f", "f", "i", "c", "e", "\n", "*",
           " ", "B", "e", "t", "r", "i", "e", "b", "l", "i", "c", "h", "e", " ", "A", "l", "t",
           "e", "r", "s", "v", "o", "r", "s", "o", "r", "g", "e", "\n", "*", " ", "F", "i",
           "r", "m", "e", "n", "w", "a", "g", "e", "n", " ", "o", "d", "e", "r", " ", "M", "o",
           "b", "i", "l", "i", "t", "a", "t", "s", "b", "u", "d", "g", "e", "t", "\n", "*",
           " ", "W", "e", "i", "t", "e", "r", "b", "i", "l", "d", "u", "n", "g", "s", "m", "o",
           "g", "l", "i", "c", "h", "k", "e", "i", "t", "e", "n", " ", "u", "n", "d", " ", "K",
           "o", "n", "f", "e", "r", "e", "n", "z", "b", "e", "s", "u", "c", "h", "e">>,
        keywords |-> <<<<"M", "a", "c", "h", "i", "n", "e", " ", "L", "e", "a", "r", "n", "i", "n", "g">>, <<"C", "o", "m", "p", "u", "t", "e", "r", " ", "V", "i", "s", "i", "o", "n">>, <<"D", "e", "e", "p", " ", "L", "e", "a", "r", "n", "i", "n", "g">>, <<"A", "I">>>>],
       [titel |-> <<"D", "a", "t", "a", " ", "S", "c", "i", "e", "n", "t", "i", "s", "t", " ", "-", " ", "G",
           "e", "n", "e", "r", "a", "t", "i", "v", "e", " ", "A", "I", " ", "(", "m", "/", "w",
           "/", "d", ")">>,
        firmenname |-> <<"F", "i", "n", "T", "e", "c", "h", " ", "I", "n", "n", "o", "v", "a", "t", "i", "o", "n",
           " ", "L", "a", "b">>,
        standort |-> <<"F", "r", "a", "n", "k", "f", "u", "r", "t", " ", "a", "m", " ", "M", "a", "i", "n">>,
        textvorschau |-> <<"I", "m", "p", "l", "e", "m", "e", "n", "t", "i", "e", "r", "u", "n", "g", " ", "v", "o",
           "n", " ", "G", "e", "n", "A", "I", "-", "L", "o", "s", "u", "n", "g", "e", "n", " ",
           "i", "m", " ", "F", "i", "n", "a", "n", "z", "s", "e", "k", "t", "o", "r", " ", "b",
           "e", "i", " ", "e", "i", "n", "e", "m", " ", "i", "n", "n", "o", "v", "a", "t", "i",
           "v", "e", "n", " ", "F", "i", "n", "T", "e", "c", "h", "-", "U", "n", "t", "e", "r",
           "n", "e", "h", "m", "e", "n", ".", "\n", "\n", "I", "h", "r", "e", " ", "A", "u",
           "f", "g", "a", "b", "e", "n", ":", "\n", "*", " ", "E", "n", "t", "w", "i", "c",
           "k", "l", "u", "n", "g", " ", "v", "o", "n", " ", "G", "e", "n", "A", "I", "-", "A",
           "n", "w", "e", "n", "d", "u", "n", "g", "e", "n", " ", "f", "u", "r", " ", "F", "i",
           "n", "a", "n", "z", "a", "n", "a", "l", "y", "s", "e", " ", "u", "n", "d", " ", "R",
           "i", "s", "i", "k", "o", "b", "e", "w", "e", "r", "t", "u", "n", "g", "\n", "*",
           " ", "A", "n", "a", "l", "y", "s", "e", " ", "g", "r", "o", "s", "e", "r", " ", "D",
           "a", "t", "e", "n", "m", "e", "n", "g", "e", "n", " ", "u", "n", "d", " ", "E", "n",
           "t", "w", "i", "c", "k", "l", "u", "n", "g", " ", "p", "r", "a", "d", "i", "k", "t",
           "i", "v", "e", "r", " ", "M", "o", "d", "e", "l", "l", "e", "\n", "*", " ", "I",
           "n", "t", "e", "g", "r", "a", "t", "i", "o", "n", " ", "v", "o", "n", " ", "L", "L",
           "M", "s", " ", "f", "u", "r", " ", "a", "u", "t", "o", "m", "a", "t", "i", "s", "i",
           "e", "r", "t", "e", " ", "B", "e", "r", "i", "c", "h", "t", "s", "e", "r", "s", "t",
           "e", "l", "l", "u", "n", "g", "\n", "*", " ", "Z", "u", "s", "a", "m", "m", "e",
           "n", "a", "r", "b", "e", "i", "t", " ", "m", "i", "t", " ", "C", "o", "m", "p", "l",
           "i", "a", "n", "c", "e", "-", "T", "e", "a", "m", "s", " ", "f", "u", "r", " ", "r",
           "e", "g", "u", "l", "a", "t", "o", "r", "i", "s", "c", "h", "e", " ", "A", "n", "f",
           "o", "r", "d", "e", "r", "u", "n", "g", "e", "n", "\n", "*", " ", "P", "r", "a",
           "s", "e", "n", "t", "a", "t", "i", "o", "n", " ", "v", "o", "n", " ", "E", "r", "g",
           "e", "b", "n", "i", "s", "s", "e", "n", " ", "a", "n", " ", "S", "t", "a", "k", "e",
           "h", "o", "l", "d", "e", "r", " ", "u", "n", "d", " ", "M", "a", "n", "a", "g", "e",
           "m", "e", "n", "t", "\n", "\n", "I", "h", "r", " ", "P", "r", "o", "f", "i", "l",
           ":", "\n", "*", " ", "M", "a", "s", "t", "e", "r", " ", "i", "n", " ", "D", "a",
           "t", "a", " ", "S", "c", "i", "e", "n", "c", "e", ",", " ", "S", "t", "a", "t", "i",
           "s", "t", "i", "k", " ", "o", "d", "e", "r", " ", "I", "n", "f", "o", "r", "m", "a",
           "t", "i", "k", "\n", "*", " ", "4", "+", " ", "J", "a", "h", "r", "e", " ", "E",
           "r", "f", "a", "h", "r", "u", "n", "g", " ", "a", "l", "s", " ", "D", "a", "t", "a",
           " ", "S", "c", "i", "e", "n", "t", "i", "s", "t", "\n", "*", " ", "K", "e", "n",
           "n", "t", "n", "i", "s", "s", "e", " ", "i", "n", " ", "G", "e", "n", "A", "I", "/",
           "L", "L", "M", "-", "T", "e", "c", "h", "n", "o", "l", "o", "g", "i", "e", "n",
           "\n", "*", " ", "E", "r", "f", "a", "h", "r", "u", "n", "g", " ", "i", "m", " ",
           "F", "i", "n", "a", "n", "z", "s", "e", "k", "t", "o", "r", " ", "v", "o", "n", " ",
           "V", "o", "r", "t", "e", "i", "l", "\n", "*", " ", "S", "Q", "L", ",", " ", "P",
           "y", "t", "h", "o", "n", ",", " ", "u", "n", "d", " ", "V", "i", "s", "u", "a", "l",
           "i", "s", "i", "e", "r", "u", "n", "g", "s", "t", "o", "o", "l", "s", " ", "(", "T",
           "a", "b", "l", "e", "a", "u", ",", " ", "P", "o", "w", "e", "r", "B", "I", ")",
           "\n", "\n", "W", "i", "r", " ", "b", "i", "e", "t", "e", "n", ":", "\n", "*", " ",
           "G", "e", "h", "a", "l", "t", ":", " ", "8", "0", ".", "0", "0", "0", " ", "-", " ",
           "1", "1", "0", ".", "0", "0", "0", " ", "E", "U", "R", " ", "+", " ", "B", "o", "n",
           "u", "s", "\n", "*", " ", "Z", "e", "n", "t", "r", "a", "l", "e", " ", "L", "a",
           "g", "e", " ", "i", "n", " ", "F", "r", "a", "n", "k", "f", "u", "r", "t", "\n",
           "*", " ", "F", "l", "e", "x", "i", "b", "l", "e", " ", "A", "r", "b", "e", "i", "t",
           "s", "z", "e", "i", "t", "e", "n", "\n", "*", " ", "B", "e", "t", "r", "i", "e",
           "b", "l", "i", "c", "h", "e", " ", "K", "r", "a", "n", "k", "e", "n", "v", "e", "r",
           "s", "i", "c", "h", "e", "r", "u", "n", "g", "\n", "*", " ", "S", "t", "a", "r",
           "t", "u", "p", "-", "K", "u", "l", "t", "u", "r", " ", "m", "i", "t", " ", "f", "l",
           "a", "c", "h", "e", "n", " ", "H", "i", "e", "r", "a", "r", "c", "h", "i", "e", "n">>,
        keywords |-> <<<<"G", "e", "n", "A", "I">>, <<"D", "a", "t", "a", " ", "S", "c", "i", "e", "n", "c", "e">>, <<"A", "I">>, <<"M", "a", "c", "h", "i", "n", "e", " ", "L", "e", "a", "r", "n", "i", "n", "g">>>>] >>

DEMO_JOBS == SubSeq(DEMO_JOBS_all, 1, NumDemoJobs)

\* The copy of demo job i with its source label and URL.
DemoJob(i) ==
    DEMO_JOBS[i] @@
    [quelle |-> "StepStone",
     quelle_url |-> BASE_URL \o <<"/", "s", "t", "e", "l", "l", "e", "n", "a", "n", "g", "e", "b", "o", "t", "e", "-", "-",
           "D", "e", "m", "o", "-">> \o IntStr(i) \o <<"-">>
                    \o DEMO_JOBS[i].standort]

\* any(kw in title_lower or kw in preview_lower for kw in keyword_list)
DemoMatches(job, keywords) ==
    LET keyword_list == split(CommasToSpaces(lower(keywords)), <<>>, <<>>)
        title_lower == lower(job.titel)
        preview_lower == lower(job.textvorschau)
    IN  \E k \in DOMAIN keyword_list :
            \/ Contains(title_lower, keyword_list[k])
            \/ Contains(preview_lower, keyword_list[k])

\* The first loop of _get_demo_jobs; lucky holds the indexes for which
\* random.random() came out at most 0.3.
RECURSIVE DemoLoop(_, _, _, _, _)
DemoLoop(i, keywords, location, job_title_filter, lucky) ==
    IF i > Len(DEMO_JOBS) THEN <<>>
    ELSE LET job == DemoJob(i)
             elsewhere == TruthyText(location)
                          /\ ~Contains(lower(job.standort), lower(location))
             moved == IF elsewhere THEN [job EXCEPT !.standort = title(location)] ELSE job
             keep == /\ elsewhere => i \in lucky
                     /\ TruthyText(keywords) => DemoMatches(moved, keywords)
                     /\ TruthyText(job_title_filter) =>
                            Contains(lower(moved.titel), lower(job_title_filter))
         IN  (IF keep THEN <<moved>> ELSE <<>>)
             \o DemoLoop(i + 1, keywords, location, job_title_filter, lucky)

\* StepStoneService._get_demo_jobs
_get_demo_jobs(keywords, location, job_title_filter, lucky) ==
    LET jobs == DemoLoop(1, keywords, location, job_title_filter, lucky)
    IN  IF Len(jobs) > 0 THEN jobs
        ELSE [i \in 1..Len(DEMO_JOBS) |->
                IF TruthyText(location)
                THEN [DemoJob(i) EXCEPT !.standort = title(location)]
                ELSE DemoJob(i)]

\* The job cards the modelled site serves.
CardAI ==
    Card("article", <<"A", "I", " ", "E", "n", "g">>, <<"A", "I", " ", "E", "n", "g", " ", "A", "c", "m", "e", " ", "B", "e", "r", "l", "i", "n">>, <<"/", "s", "t", "e", "l", "l", "e", "n", "a", "n", "g", "e", "b", "o", "t", "e", "-", "-",
           "1">>, NoText,
         <<"A", "c", "m", "e">>, <<"B", "e", "r", "l", "i", "n">>, <<"W", "e", " ", "n", "e", "e", "d", " ", "a", "n", " ", "A", "I", " ", "E", "n", "g", "i",
           "n", "e", "e", "r">>)

CardData ==
    Card("article", <<"D", "a", "t", "a", " ", "A", "n", "a", "l", "y", "s", "t">>, <<"D", "a", "t", "a", " ", "A", "n", "a", "l", "y", "s", "t">>,
         <<"h", "t", "t", "p", "s", ":", "/", "/", "w", "w", "w", ".", "s", "t", "e", "p", "s", "t",
           "o", "n", "e", ".", "d", "e", "/", "s", "t", "e", "l", "l", "e", "n", "a", "n", "g",
           "e", "b", "o", "t", "e", "-", "-", "2">>, NoText, NoText, NoText, NoText)

CardKI ==
    Card("article", <<"K", "I", " ", "E", "n", "g", "i", "n", "e", "e", "r">>, <<"K", "I", " ", "E", "n", "g", "i", "n", "e", "e", "r">>, <<"/", "s", "t", "e", "l", "l", "e", "n", "a", "n", "g", "e", "b", "o", "t", "e", "-", "-",
           "1">>, NoText,
         <<"B", "e", "t", "a">>, NoText, NoText)

CardLLM ==
    Card("a", NoText,
         <<"l", "l", "m", " ", "A", "I", " ", "D", "e", "v", " ", "l", "l", "m">>,
         NoText,
         <<"d", "e", "/", "s", "t", "e", "l", "l", "e", "n", "a", "n", "g", "e", "b", "o", "t", "e", "-", "-", "3">>,
         NoText, NoText, NoText)

CardAnchor ==
    Card("a", NoText, <<"D", "a", "t", "a", " ", "A", "n", "a", "l", "y", "s", "t">>, NoText, <<"/", "s", "t", "e", "l", "l", "e", "n", "a", "n", "g", "e", "b", "o", "t", "e", "-", "-",
           "2">>, NoText, NoText, NoText)

CardNoTitle ==
    Card("article", NoText, <<"A", "n", "z", "e", "i", "g", "e">>, <<"/", "s", "t", "e", "l", "l", "e", "n", "a", "n", "g", "e", "b", "o", "t", "e", "-", "-",
           "4">>, NoText, NoText, NoText, NoText)

CardNoLink ==
    Card("article", <<"M", "L", " ", "O", "p", "s">>, <<"M", "L", " ", "O", "p", "s">>, NoText, NoText, NoText, NoText, NoText)

\* The page bodies a fetch may return: no card at all, cards that all lack a
\* title or a link, and pages with records from the first, the second and the
\* last selector of the cascade (one repeats a URL of another page).
Pages ==
    { Html(<<>>, <<>>, <<>>, <<>>),
      Html(<<CardNoTitle, CardNoLink>>, <<>>, <<>>, <<CardAnchor>>),
      Html(<<CardAI, CardData>>, <<>>, <<>>, <<>>),
      Html(<<>>, <<CardNoTitle, CardKI, CardNoLink>>, <<CardLLM>>, <<>>),
      Html(<<>>, <<>>, <<>>, <<CardAnchor, CardLLM>>) }

\* How session.get / raise_for_status may fail.
FetchFailures == {"ConnectionError", "HTTPError"}

\* The arguments tried for search_jobs.
SearchArgs ==
    [ keywords : {NoText, <<"l", "l", "m">>, <<"z", "z", "z">>},
      location : {NoText, <<"b", "e", "r", "l", "i", "n">>},
      radius : {30},
      max_pages : 0..MaxPagesArg,
      date_filter : {0},
      job_title_filter : {NoText, <<"E", "N", "G">>, <<"A", "n", "a", "l", "y", "s", "t">>} ]

\* The outcomes of the random draws of one _get_demo_jobs call.
Draws == SUBSET (1..NumDemoJobs)

\* search_jobs is called.
search_jobs(a) ==
    /\ pc = "idle"
    /\ args' = a
    /\ page' = 1
    /\ all_jobs' = <<>>
    /\ pc' = IF a.max_pages >= 1 THEN "fetch" ELSE "return"
    /\ UNCHANGED <<parsed, log, result>>
    /\ UNCHANGED <<leadVars, sessions>>

FetchUrl == build_search_url(args.keywords, args.location, args.radius, page, args.date_filter)

\* The fallback of search_jobs.
Fallback(lucky) == _get_demo_jobs(args.keywords, args.location, args.job_title_filter, lucky)

\* A loop that sleeps after every page with records, the last one included.
AfterPage_AlwaysSleep(jobs) == IF Len(jobs) = 0 THEN "return" ELSE "sleep"

\* A loop without the break on an empty page.
AfterPage_NoBreak(jobs) == IF page < args.max_pages THEN "sleep" ELSE "return"

\* Where _scrape_jobs goes after parsing a page into jobs: out of the loop on an
\* empty page or after the last page, to the delay otherwise.
AfterPage(jobs) ==
    IF Len(jobs) = 0 THEN "return"
    ELSE IF page < args.max_pages THEN "sleep"
    ELSE "return"

\* One pass of the loop of _scrape_jobs whose fetch succeeds with body html.
scrape_page(html) ==
    /\ pc = "fetch"
    /\ LET jobs == _parse_search_results(html)
       IN  /\ log' = Append(log, [ev |-> "fetch", page |-> page, url |-> FetchUrl,
                                  ok |-> TRUE, records |-> Len(jobs),
                                  body |-> html, jobs |-> jobs])
           /\ parsed' = parsed \o jobs
           /\ all_jobs' = IF Len(jobs) = 0 THEN all_jobs
                          ELSE all_jobs \o TitleFilter(jobs, args.job_title_filter)
           /\ pc' = AfterPage(jobs)
    /\ UNCHANGED <<args, page, result>>
    /\ UNCHANGED <<leadVars, sessions>>

\* One pass of the loop whose fetch raises: the exception leaves _scrape_jobs
\* and search_jobs answers from its except branch.
scrape_page_fails(failure, lucky) ==
    /\ pc = "fetch"
    /\ log' = Append(log, [ev |-> "fetch", page |-> page, url |-> FetchUrl, ok |-> FALSE,
                           records |-> 0, error |-> failure])
    /\ result' = Fallback(lucky)
    /\ pc' = "done"
    /\ UNCHANGED <<args, page, all_jobs, parsed>>
    /\ UNCHANGED <<leadVars, sessions>>

\* time.sleep(1) and the step to the next page.
sleep ==
    /\ pc = "sleep"
    /\ log' = Append(log, [ev |-> "sleep", page |-> page, seconds |-> 1])
    /\ page' = page + 1
    /\ pc' = "fetch"
    /\ UNCHANGED <<args, all_jobs, parsed, result>>
    /\ UNCHANGED <<leadVars, sessions>>

\* The end of _scrape_jobs and of search_jobs: the duplicates are removed, and a
\* non-empty list is returned, an empty one replaced by the demo jobs.
search_jobs_return(lucky) ==
    /\ pc = "return"
    /\ LET unique_jobs == Unique(all_jobs, {})
       IN  result' = IF Len(unique_jobs) > 0 THEN unique_jobs ELSE Fallback(lucky)
    /\ pc' = "done"
    /\ UNCHANGED <<args, page, all_jobs, parsed, log>>
    /\ UNCHANGED <<leadVars, sessions>>

NextSearch ==
    \/ \E a \in SearchArgs : search_jobs(a)
    \/ \E html \in Pages : scrape_page(html)
    \/ \E failure \in FetchFailures, lucky \in Draws : scrape_page_fails(failure, lucky)
    \/ sleep
    \/ \E lucky \in Draws : search_jobs_return(lucky)

SpecSearch == Init /\ [][NextSearch]_vars

\* ------------------------------------------------------- lead lifecycle claims

\* The step just taken served request op on a stored lead.
Served(op) == last'.op = op /\ last'.id \in DOMAIN leads

\* C1: after any sequence of lead operations the status of every stored lead is
\* one of the six values of the enumeration.
C1_StatusInEnumeration ==
    \A id \in DOMAIN leads :
        leads[id].status \in {NEU, AKTIVIERT, RECHERCHIERT, ANSCHREIBEN_ERSTELLT,
                              ANGESCHRIEBEN, ANTWORT_ERHALTEN}

\* C2: activate succeeds exactly on a lead whose status is NEU and then sets
\* AKTIVIERT, after which another activate cannot succeed; on any other status
\* it answers 400 and leaves the whole table, timestamps included, as it was.
C2_ActivateOnlyFromNew ==
    [][Served("activate") =>
        IF leads[last'.id].status = NEU
        THEN /\ last'.code = 200
             /\ leads'[last'.id].status = AKTIVIERT
             /\ leads'[last'.id].status # NEU
        ELSE /\ last'.code = 400
             /\ leads' = leads]_vars

\* C2 witness: a second activate on an activated lead was refused.
C2_Witness ==
    /\ last.op = "activate" /\ last.code = 400
    /\ last.id \in DOMAIN leads
    /\ leads[last.id].status = AKTIVIERT

\* C3: generate_letter succeeds exactly on the statuses RECHERCHIERT,
\* ANSCHREIBEN_ERSTELLT, ANGESCHRIEBEN and ANTWORT_ERHALTEN, then stores a letter
\* and sets ANSCHREIBEN_ERSTELLT; otherwise it answers 400 and changes nothing.
C3_LetterGuard ==
    [][Served("generate_letter") =>
        IF leads[last'.id].status \in {RECHERCHIERT, ANSCHREIBEN_ERSTELLT,
                                       ANGESCHRIEBEN, ANTWORT_ERHALTEN}
        THEN /\ last'.code = 200
             /\ leads'[last'.id].status = ANSCHREIBEN_ERSTELLT
             /\ Truthy(leads'[last'.id].anschreiben)
        ELSE /\ last'.code = 400
             /\ leads' = leads]_vars

\* C3 witness: a letter was generated and the lead is in ANSCHREIBEN_ERSTELLT.
C3_Witness ==
    /\ last.op = "generate_letter" /\ last.code = 200
    /\ last.id \in DOMAIN leads
    /\ leads[last.id].status = ANSCHREIBEN_ERSTELLT
    /\ Truthy(leads[last.id].anschreiben)

\* C4: research succeeds only on a lead whose status is AKTIVIERT and then sets
\* RECHERCHIERT; on any other status it fails and changes no column of any lead.
C4_ResearchGuard ==
    [][Served("research") =>
        /\ last'.code = 200 =>
              /\ leads[last'.id].status = AKTIVIERT
              /\ leads'[last'.id].status = RECHERCHIERT
        /\ leads[last'.id].status # AKTIVIERT =>
              /\ last'.code = 400
              /\ leads' = leads]_vars

\* C4 witness: research was refused on a lead that is still NEU.
C4_Witness ==
    /\ last.op = "research" /\ last.code = 400
    /\ last.id \in DOMAIN leads
    /\ leads[last.id].status = NEU

\* The enrichment columns research fills.
EnrichmentFields ==
    {"firmen_website", "firmen_adresse", "firmen_email", "ansprechpartner_name",
     "ansprechpartner_rolle", "ansprechpartner_linkedin"}

\* C5 as claimed: a column that was non-null before a successful research is
\* never null after it, and a changed column is never changed to null.
C5_NonNullNeverErased ==
    [][(Served("research") /\ last'.code = 200) =>
        \A f \in EnrichmentFields :
            /\ leads[last'.id][f] # None => leads'[last'.id][f] # None
            /\ leads'[last'.id][f] # leads[last'.id][f] => leads'[last'.id][f] # None]_vars

\* C5 as amended: a column that was non-empty (neither null nor '') before a
\* successful research is never null or empty after it; website, address and
\* e-mail keep a non-empty value; where research has no value for a column (no
\* company name) the column keeps its value unless that was ''; and only an
\* empty string is ever replaced by null.
C5_NonEmptyNeverErased ==
    [][(Served("research") /\ last'.code = 200) =>
        LET old == leads[last'.id]
            new == leads'[last'.id]
        IN  /\ \A f \in EnrichmentFields : Truthy(old[f]) => Truthy(new[f])
            /\ \A f \in {"firmen_website", "firmen_adresse", "firmen_email"} :
                  Truthy(old[f]) => new[f] = old[f]
            /\ \A f \in {"firmen_website", "firmen_email"} :
                  (~Truthy(old.firmenname) /\ old[f] # "") => new[f] = old[f]
            /\ \A f \in EnrichmentFields :
                  (new[f] # old[f] /\ new[f] = None) => old[f] = ""]_vars

\* C5 witness: research kept a website the lead already had and set the address.
C5_Witness ==
    /\ last.op = "research" /\ last.code = 200
    /\ last.id \in DOMAIN leads
    /\ leads[last.id].firmen_website = "https://acme.example"
    /\ leads[last.id].firmen_adresse = "Musterstrasse 123, 10115 Berlin"
    /\ leads[last.id].status = RECHERCHIERT

\* C6: set_status stores the requested value, from any status, when it is one of
\* the six options; otherwise (also with no value in the body) it answers 400
\* and changes nothing.
C6_SetStatus ==
    [][Served("set_status") =>
        LET requested == IF "status" \in DOMAIN last'.data THEN last'.data.status ELSE None
        IN  IF requested \in {NEU, AKTIVIERT, RECHERCHIERT, ANSCHREIBEN_ERSTELLT,
                              ANGESCHRIEBEN, ANTWORT_ERHALTEN}
            THEN /\ last'.code = 200
                 /\ leads'[last'.id].status = requested
            ELSE /\ last'.code = 400
                 /\ leads' = leads]_vars

\* C6 witness: a status request without a value was refused.
C6_Witness ==
    /\ last.op = "set_status" /\ last.code = 400
    /\ last.id \in DOMAIN leads
    /\ "status" \notin DOMAIN last.data

\* C7: with no credential configured (a call of the collaborator would raise),
\* research on a lead fails and the lead is left as it was.
C7_UnconfiguredResearchFails ==
    [][(Served("research") /\ _call_api(api_key) = "ValueError") =>
        /\ last'.code # 200
        /\ leads' = leads]_vars

\* ------------------------------------------------------------ retrieval claims

\* The fetches of the call, in the order they were issued.
Fetches == SelectSeq(log, LAMBDA e : e.ev = "fetch")

\* C8: a retrieval issues at most max_pages fetches, for the pages 1, 2, ... in
\* order, and none after the first page that yields zero parsed records.
C8_FetchesBounded ==
    pc # "idle" =>
        /\ Len(Fetches) <= args.max_pages
        /\ \A k \in DOMAIN Fetches :
              /\ Fetches[k].page = k
              /\ (Fetches[k].ok /\ Fetches[k].records = 0) => k = Len(Fetches)
        /\ (pc = "fetch" /\ Len(Fetches) > 0) => Fetches[Len(Fetches)].records > 0

\* C8 witness: with max_pages = 3 the call ended after a second page without
\* records, two fetches in all.
C8_Witness ==
    /\ pc = "done"
    /\ args.max_pages = 3
    /\ Len(Fetches) = 2
    /\ Fetches[2].ok /\ Fetches[2].records = 0

\* C9: when a fetch fails after earlier pages yielded records, the caller gets
\* exactly those records, deduplicated.
C9_PartialResultsReturned ==
    (/\ pc = "done"
     /\ Len(Fetches) > 0
     /\ ~Fetches[Len(Fetches)].ok
     /\ Len(all_jobs) > 0)
    => result = Unique(all_jobs, {})

\* C10: every record search_jobs returns was parsed from a page fetched during
\* the call.
C10_NoSyntheticData ==
    pc = "done" =>
        \A k \in DOMAIN result : \E j \in DOMAIN parsed : parsed[j] = result[k]

\* The call went through every fetch without an exception.
Scraped == Len(Fetches) > 0 /\ Fetches[Len(Fetches)].ok

\* The position in jobs of the first record with this source URL.
FirstSeen(jobs, url) ==
    CHOOSE j \in DOMAIN jobs :
        /\ jobs[j].quelle_url = url
        /\ \A i \in 1..(j - 1) : jobs[i].quelle_url # url

\* C11: the output holds no two records with the same source URL; an output
\* record whose URL occurs among the accumulated records is the first
\* accumulated record with that URL, such records keep their first-seen order,
\* and a call that accumulated records without a failed fetch returns one record
\* for every accumulated URL.
C11_DedupFirstSeen ==
    pc = "done" =>
        LET accumulated == {all_jobs[j].quelle_url : j \in DOMAIN all_jobs}
            kept == {k \in DOMAIN result : result[k].quelle_url \in accumulated}
        IN  /\ \A i, j \in DOMAIN result :
                  i # j => result[i].quelle_url # result[j].quelle_url
            /\ \A k \in kept : result[k] = all_jobs[FirstSeen(all_jobs, result[k].quelle_url)]
            /\ \A k, l \in kept :
                  k < l => FirstSeen(all_jobs, result[k].quelle_url)
                             < FirstSeen(all_jobs, result[l].quelle_url)
            /\ (Scraped /\ Len(all_jobs) > 0) =>
                  accumulated = {result[k].quelle_url : k \in DOMAIN result}

\* C11 witness: two pages brought three records, two of them with one URL and
\* different titles, and two were returned.
C11_Witness ==
    /\ pc = "done"
    /\ Scraped
    /\ Len(all_jobs) = 3
    /\ Len(result) = 2
    /\ all_jobs[1].quelle_url = all_jobs[3].quelle_url
    /\ all_jobs[1].titel # all_jobs[3].titel
    /\ result[1] = all_jobs[1]

\* C12: with a title filter given, every record search_jobs returns has a title
\* that contains the filter, letter case ignored.
C12_TitleFilterHonoured ==
    (pc = "done" /\ TruthyText(args.job_title_filter)) =>
        \A k \in DOMAIN result :
            Contains(lower(result[k].titel), lower(args.job_title_filter))

\* C13: every row a request inserts, by create (whatever the body holds, a
\* status included) or by the demo seeding, has the status NEU.
C13_CreatedAsNew ==
    [][/\ \A id \in DOMAIN leads' \ DOMAIN leads : leads'[id].status = NEU
       /\ (last'.op = "create" /\ last'.code = 201) =>
              /\ last'.id \in DOMAIN leads'
              /\ leads'[last'.id].status = NEU]_vars

\* C13 witness: a create whose body asked for another status stored a NEU lead.
C13_Witness ==
    /\ last.op = "create" /\ last.code = 201
    /\ "status" \in DOMAIN last.data
    /\ last.data.status = ANGESCHRIEBEN
    /\ last.id \in DOMAIN leads
    /\ leads[last.id].status = NEU

\* C14: once a delete of a lead has succeeded, its id stays absent from the
\* table (so that every later request on that id answers 404): no request that
\* follows the delete brings a row with that id into the table.
C14_DeletedStaysDeleted ==
    [][(last.op = "delete" /\ last.code = 200) => last.id \notin DOMAIN leads']_vars

\* The requests that write to one stored lead.
Mutations == {"update", "activate", "research", "generate_letter", "set_status"}

\* The step just taken answered 200 to a mutation of a stored lead.
Mutated == last'.op \in Mutations /\ last'.code = 200 /\ last'.id \in DOMAIN leads

\* C15 as claimed: every successful mutation sets aktualisiert_am to the time of
\* the request, also one that writes the values the columns already have.
C15_EveryMutationStamps ==
    [][Mutated => leads'[last'.id].aktualisiert_am = now']_vars

\* C15 as amended: a successful mutation that changes some column sets
\* aktualisiert_am to the time of the request; one that writes only the values
\* the columns already have leaves the row, aktualisiert_am included, as it was;
\* erstellt_am never changes.
C15_ChangeStamps ==
    [][Mutated =>
        LET old == leads[last'.id]
            new == leads'[last'.id]
            changed == \E f \in DOMAIN old \ {"aktualisiert_am"} : new[f] # old[f]
        IN  /\ changed => new.aktualisiert_am = now'
            /\ ~changed => new = old
            /\ new.erstellt_am = old.erstellt_am]_vars

\* C15 witness: a set_status that asked for the status the lead already had was
\* answered 200 and the lead kept its earlier aktualisiert_am.
C15_Witness ==
    /\ last.op = "set_status" /\ last.code = 200
    /\ last.id \in DOMAIN leads
    /\ leads[last.id].status = last.data.status
    /\ leads[last.id].aktualisiert_am < now

\* C16: the fetch of a page p > 1 directly follows one sleep, which directly
\* follows the completed fetch and parse of page p - 1; a sleep only follows a
\* fetch that brought records for a page before max_pages; and when the loop is
\* left the last event is a fetch, never a sleep.
C16_SequentialWithDelay ==
    /\ \A k \in DOMAIN log :
          /\ (log[k].ev = "fetch" /\ log[k].page > 1) =>
                /\ k > 2
                /\ log[k - 1].ev = "sleep"
                /\ log[k - 1].seconds = 1
                /\ log[k - 2].ev = "fetch"
                /\ log[k - 2].ok
                /\ log[k - 2].page = log[k].page - 1
          /\ (log[k].ev = "fetch" /\ log[k].page = 1) => k = 1
          /\ log[k].ev = "sleep" =>
                /\ k > 1
                /\ log[k - 1].ev = "fetch"
                /\ log[k - 1].ok
                /\ log[k - 1].records > 0
                /\ log[k - 1].page < args.max_pages
    /\ (pc \in {"return", "done"} /\ Len(log) > 0) => log[Len(log)].ev = "fetch"

\* C16 witness: a call with max_pages = 2 ended after fetch, sleep, fetch, the
\* second page with records too.
C16_Witness ==
    /\ pc = "done"
    /\ args.max_pages = 2
    /\ Len(log) = 3
    /\ log[1].ev = "fetch" /\ log[2].ev = "sleep" /\ log[3].ev = "fetch"
    /\ log[3].ok /\ log[3].records > 0

\* The successful fetches of the call.
Parses == SelectSeq(log, LAMBDA e : e.ev = "fetch" /\ e.ok)

\* A card carries a title: a title element with text, or the text of an anchor
\* card without title element.
HasTitle(card) ==
    \/ TruthyText(card.title_text)
    \/ card.title_text = NoText /\ card.name = "a" /\ TruthyText(card.own_text)

\* A card carries a link: an inner anchor to a posting, or the href of an anchor
\* card without one.
HasLink(card) ==
    \/ TruthyText(card.inner_href)
    \/ card.inner_href = NoText /\ card.name = "a" /\ TruthyText(card.own_href)

\* A record has a non-empty title and a non-empty absolute source URL.
WellFormed(job) ==
    /\ "titel" \in DOMAIN job /\ TruthyText(job.titel)
    /\ "quelle_url" \in DOMAIN job /\ TruthyText(job.quelle_url)
    /\ startswith(job.quelle_url, <<"h", "t", "t", "p">>)

\* C17: every record parsed from a page and every record returned to the caller
\* has a non-empty title and a non-empty absolute source URL; of the cards of a
\* page exactly those with a title and a link yield a record, whether or not
\* they carry a company, a location or a preview.
C17_RecordsWellFormed ==
    /\ \A k \in DOMAIN parsed : WellFormed(parsed[k])
    /\ pc = "done" => \A k \in DOMAIN result : WellFormed(result[k])
    /\ \A n \in DOMAIN Parses :
          LET cards == JobCards(Parses[n].body)
              valid == {i \in DOMAIN cards : HasTitle(cards[i]) /\ HasLink(cards[i])}
          IN  /\ Len(Parses[n].jobs) = Cardinality(valid)
              /\ \A i \in valid :
                    \E j \in DOMAIN Parses[n].jobs :
                        /\ Parses[n].jobs[j].titel \in {cards[i].title_text, cards[i].own_text}
                        /\ ("firmenname" \in DOMAIN Parses[n].jobs[j]) = (cards[i].company # NoText)
                        /\ ("standort" \in DOMAIN Parses[n].jobs[j]) = (cards[i].location # NoText)
                        /\ ("textvorschau" \in DOMAIN Parses[n].jobs[j]) = (cards[i].snippet # NoText)

\* C17 witness: the caller got a record without company, location and preview,
\* and a page of the call had a card that yielded no record next to one that did.
C17_Witness ==
    /\ pc = "done"
    /\ Scraped
    /\ \E k \in DOMAIN result :
          /\ result[k] \in {parsed[j] : j \in DOMAIN parsed}
          /\ {"firmenname", "standort", "textvorschau"} \cap DOMAIN result[k] = {}
    /\ \E n \in DOMAIN Parses :
          /\ Len(Parses[n].jobs) > 0
          /\ Len(JobCards(Parses[n].body)) > Len(Parses[n].jobs)

\* The positions, in page order, of the cards that carry a title and a link.
ValidCards(cards) ==
    SelectSeq([i \in DOMAIN cards |-> i], LAMBDA i : HasTitle(cards[i]) /\ HasLink(cards[i]))

\* C18: a card of a page that does not normalise is skipped alone: the parse of
\* the page yields one record for every other card, in page order, each with
\* the title of its card.
C18_OnlyFailedCardSkipped ==
    \A n \in DOMAIN Parses :
        LET cards == JobCards(Parses[n].body)
            jobs == Parses[n].jobs
            valid == ValidCards(cards)
        IN  /\ Len(jobs) = Len(valid)
            /\ \A j \in DOMAIN jobs :
                  /\ jobs[j].titel = (IF cards[valid[j]].title_text # NoText
                                      THEN cards[valid[j]].title_text
                                      ELSE cards[valid[j]].own_text)
                  /\ Contains(jobs[j].quelle_url,
                              IF cards[valid[j]].inner_href # NoText
                              THEN cards[valid[j]].inner_href
                              ELSE cards[valid[j]].own_href)

\* C18 witness: a page of three cards whose first and last did not normalise
\* was parsed to the record of the second.
C18_Witness ==
    \E n \in DOMAIN Parses :
        LET cards == JobCards(Parses[n].body)
        IN  /\ Len(cards) = 3
            /\ ~HasTitle(cards[1])
            /\ ~HasLink(cards[3])
            /\ Len(Parses[n].jobs) = 1
            /\ Parses[n].jobs[1].titel = cards[2].title_text

\* C19: the preview of every record search_jobs returns is at most 500
\* characters long.
C19_PreviewBounded ==
    pc = "done" =>
        \A k \in DOMAIN result :
            "textvorschau" \in DOMAIN result[k] => Len(result[k].textvorschau) <= 500

\* ----------------------------------------------------------------- import claim

\* C20: jobs brought into the store, one POST /api/leads each or seeded, leave at
\* most one lead per source URL: no two stored leads have the same quelle_url.
C20_OneLeadPerSourceUrl ==
    \A i, j \in DOMAIN leads :
        (i # j /\ leads[i].quelle_url # None) => leads[i].quelle_url # leads[j].quelle_url

\* ----------------------------------------------------------------- letter claim

\* What the letter is to show for a sender value: the value, or the placeholder
\* when the body has no such key or holds null for it.
SenderOr(data, key, placeholder) ==
    IF key \in DOMAIN data /\ data[key] # None THEN data[key] ELSE placeholder

\* C21: the letter generate_letter stores greets the contact by name, or
\* "Damen und Herren" when the lead has no contact name, and ends with the
\* sender name and sender company of the body, each replaced by its placeholder
\* when the body has no such key or holds null for it.
C21_LetterSenderPlaceholders ==
    [][(Served("generate_letter") /\ last'.code = 200) =>
        LET old == leads[last'.id]
            greeted == [old EXCEPT !.ansprechpartner_name =
                            IF @ \in {None, ""} THEN "Damen und Herren" ELSE @]
        IN  leads'[last'.id].anschreiben =
                LetterText(greeted,
                           SenderOr(last'.data, "absender_name", "[Ihr Name]"),
                           SenderOr(last'.data, "absender_firma", "[Ihre Firma]"))]_vars

\* ---------------------------------------------------------------- keyword claim

\* C23: the keywords of every record parsed from a page are vocabulary terms in
\* strictly ascending vocabulary position (so vocabulary order, each term once),
\* and a vocabulary term is among them exactly when it occurs in the title,
\* letter case ignored.
C23_KeywordsAreVocabularyMatches ==
    \A k \in DOMAIN parsed :
        LET kws == parsed[k].keywords
            pos(j) == CHOOSE i \in DOMAIN AI_KEYWORDS : AI_KEYWORDS[i] = kws[j]
        IN  /\ \A j \in DOMAIN kws : \E i \in DOMAIN AI_KEYWORDS : AI_KEYWORDS[i] = kws[j]
            /\ \A j \in DOMAIN kws : j > 1 => pos(j - 1) < pos(j)
            /\ \A i \in DOMAIN AI_KEYWORDS :
                  (\E j \in DOMAIN kws : kws[j] = AI_KEYWORDS[i])
                  <=> Contains(lower(parsed[k].titel), lower(AI_KEYWORDS[i]))

\* C23 witness: a title that writes llm twice, in lower case, and AI after it
\* was tagged AI, LLM.
C23_Witness ==
    \E k \in DOMAIN parsed :
        /\ parsed[k].titel = <<"l", "l", "m", " ", "A", "I", " ", "D", "e", "v", " ", "l", "l", "m">>
        /\ parsed[k].keywords = << <<"A", "I">>, <<"L", "L", "M">> >>

\* -------------------------------------------------------------- lifecycle claim

\* The store after one accepted POST /api/leads at time 0.
InitLifecycle ==
    /\ \E data \in CreateBodies :
          /\ ~IntegrityError(NewLead(data, 0))
          /\ leads = (1 :> NewLead(data, 0))
          /\ last = Response("create", 1, 201, data)
    /\ nextId = 2
    /\ now = 0
    /\ api_key \in BOOLEAN
    /\ SearchIdle
    /\ sessions = [w \in Workers |-> Idle]

\* The guarded lifecycle requests only: no PUT on a lead or on its status.
NextLifecycle ==
    \/ \E data \in CreateBodies : create_lead(data)
    \/ \E id \in RequestIds : activate_lead(id)
    \/ \E id \in RequestIds : research_lead(id)
    \/ \E id \in RequestIds, data \in LetterBodies : generate_letter(id, data)

SpecLifecycle == InitLifecycle /\ [][NextLifecycle]_vars

\* The place of a status in the order of the lifecycle.
Rank(status) ==
    CASE status = NEU -> 1
      [] status = AKTIVIERT -> 2
      [] status = RECHERCHIERT -> 3
      [] status = ANSCHREIBEN_ERSTELLT -> 4
      [] OTHER -> 0

\* C24: under create, activate, research and generate_letter alone the status
\* of a lead is one of NEU, AKTIVIERT, RECHERCHIERT, ANSCHREIBEN_ERSTELLT (never
\* ANGESCHRIEBEN or ANTWORT_ERHALTEN), a lead in ANSCHREIBEN_ERSTELLT has a
\* letter, a new lead starts as NEU, and a status changes only to the next one
\* in that order.
C24_LifecycleForwardOnly ==
    /\ [](\A id \in DOMAIN leads :
            /\ Rank(leads[id].status) \in 1..4
            /\ leads[id].status = ANSCHREIBEN_ERSTELLT => Truthy(leads[id].anschreiben))
    /\ [][\A id \in DOMAIN leads' :
            IF id \in DOMAIN leads
            THEN \/ leads'[id].status = leads[id].status
                 \/ Rank(leads'[id].status) = Rank(leads[id].status) + 1
            ELSE leads'[id].status = NEU]_vars

\* C24 witness: a lead went the whole way and holds its letter.
C24_Witness ==
    /\ last.op = "generate_letter" /\ last.code = 200
    /\ leads[1].status = ANSCHREIBEN_ERSTELLT
    /\ Truthy(leads[1].anschreiben)
    /\ Truthy(leads[1].volltext)
    /\ now = 3

\* ------------------------------------------------------------ concurrent writes

\* The writing requests served side by side, one per worker: activate_lead,
\* update_status and update_lead, with a body each handler accepts and one it
\* rejects.
ConcRequests ==
    { [op |-> "activate", data |-> <<>>],
      [op |-> "set_status", data |-> "status" :> ANGESCHRIEBEN],
      [op |-> "set_status", data |-> "status" :> "bogus"],
      [op |-> "update", data |-> [status |-> AKTIVIERT,
                                  firmen_website |-> "https://acme.example",
                                  ansprechpartner_name |-> "Eva Klein"]],
      [op |-> "update", data |-> "titel" :> None] }

\* The requests in flight.
InFlight == {w \in Workers : sessions[w] # Idle}

\* Lead.query.get_or_404(id), the first statement of each writing handler: the
\* worker's session SELECTs the row as it is stored now and keeps it as the
\* object the handler works on, or the request ends with 404.
get_or_404(w, op, id, data) ==
    /\ sessions[w] = Idle
    /\ now + Cardinality(InFlight) < MaxClock
    /\ IF id \notin DOMAIN leads
       THEN /\ now' = now + 1
            /\ last' = Response(op, id, 404, data)
            /\ UNCHANGED sessions
       ELSE /\ sessions' = [sessions EXCEPT ![w] =
                               [op |-> op, id |-> id, data |-> data,
                                lead |-> leads[id], at |-> now]]
            /\ UNCHANGED <<now, last>>
    /\ UNCHANGED <<leads, nextId, api_key>>
    /\ UNCHANGED searchVars

\* The handler's statements between get_or_404 and db.session.commit(), run on
\* the session's own object: the response code and the object afterwards.
Handled(s) ==
    CASE s.op = "activate" ->
            IF ~CanActivate(s.lead)
            THEN [code |-> 400, lead |-> s.lead]
            ELSE [code |-> 200, lead |-> [s.lead EXCEPT !.status = AKTIVIERT]]
      [] s.op = "set_status" ->
            LET new_status == Get(s.data, "status", None)
            IN  IF ~ValidStatus(new_status)
                THEN [code |-> 400, lead |-> s.lead]
                ELSE [code |-> 200, lead |-> [s.lead EXCEPT !.status = new_status]]
      [] s.op = "update" ->
            LET new == Updated(s.lead, s.data)
            IN  IF IntegrityError(new)
                THEN [code |-> 500, lead |-> s.lead]
                ELSE [code |-> 200, lead |-> new]

\* The attributes whose value the handler changed: the session's unit of work
\* writes these columns and no others.
Dirty(old, new) == {f \in DOMAIN old : new[f] # old[f]}

\* An UPDATE that has lost its WHERE clause.
UpdateRows_NoWhere(table, id, old, new, t) ==
    IF Dirty(old, new) = {} THEN table
    ELSE [i \in DOMAIN table |->
            [f \in DOMAIN table[i] |->
                IF f \in Dirty(old, new) THEN new[f]
                ELSE IF f = "aktualisiert_am" THEN t ELSE table[i][f]]]

\* The flush of db.session.commit(): no statement when nothing is dirty, else
\* UPDATE leads SET <dirty columns>, aktualisiert_am = t WHERE id = <id>, one
\* statement in one transaction.
UpdateRows(table, id, old, new, t) ==
    IF Dirty(old, new) = {} THEN table
    ELSE [i \in DOMAIN table |->
            IF i # id THEN table[i]
            ELSE [f \in DOMAIN table[i] |->
                    IF f \in Dirty(old, new) THEN new[f]
                    ELSE IF f = "aktualisiert_am" THEN t ELSE table[i][f]]]

\* The rest of a writing handler after get_or_404: its checks and assignments,
\* then db.session.commit() and the response.
session_commit(w) ==
    /\ sessions[w] # Idle
    /\ now < MaxClock
    /\ now' = now + 1
    /\ LET s == sessions[w]
           out == Handled(s)
       IN  /\ leads' = IF out.code = 200
                       THEN UpdateRows(leads, s.id, s.lead, out.lead, now')
                       ELSE leads
           /\ last' = Response(s.op, s.id, out.code, s.data)
    /\ sessions' = [sessions EXCEPT ![w] = Idle]
    /\ UNCHANGED <<nextId, api_key>>
    /\ UNCHANGED searchVars

\* The store after POST /api/seed on an empty database, every worker idle.
InitConc ==
    /\ leads = SeedLoop(<<>>, 1, demo_leads, 0).rows
    /\ nextId = NumDemoLeads + 1
    /\ now = 0
    /\ api_key \in BOOLEAN
    /\ last = Response("seed", 0, 200, <<>>)
    /\ SearchIdle
    /\ sessions = [w \in Workers |-> Idle]

\* Writing requests of several workers, interleaved between the load of the row
\* and the commit.
NextConc ==
    \/ \E w \in Workers, r \in ConcRequests, id \in RequestIds :
            get_or_404(w, r.op, id, r.data)
    \/ \E w \in Workers : session_commit(w)

SpecConc == InitConc /\ [][NextConc]_vars

\* The row a request leaves when it is served alone, from load to commit, on
\* the stored row.
Alone(op, row, data, t) ==
    CASE op = "activate" ->
            IF CanActivate(row) THEN Commit(row, [row EXCEPT !.status = AKTIVIERT], t)
            ELSE row
      [] op = "set_status" ->
            IF ValidStatus(Get(data, "status", None))
            THEN Commit(row, [row EXCEPT !.status = Get(data, "status", None)], t)
            ELSE row
      [] op = "update" ->
            IF IntegrityError(Updated(row, data)) THEN row
            ELSE Commit(row, Updated(row, data), t)

\* C22: a request that commits changes no lead but its own, and when no other
\* request wrote its lead since it loaded the row, it leaves that lead as the
\* same request served alone would; so with requests on two different leads
\* interleaved, each lead ends as its own requests in order leave it.
C22_WritesTouchOneLead ==
    [][\A w \in Workers :
          (sessions[w] # Idle /\ sessions'[w] = Idle) =>
              LET s == sessions[w]
              IN  /\ DOMAIN leads' = DOMAIN leads
                  /\ \A b \in DOMAIN leads : b # s.id => leads'[b] = leads[b]
                  /\ leads[s.id] = s.lead =>
                        leads'[s.id] = Alone(s.op, leads[s.id], s.data, now')]_vars

\* C22 witness: while a request on lead 2 is in flight, a request that arrived
\* with it has activated lead 1, and lead 2 is still the row the first loaded.
C22_Witness ==
    \E w \in Workers :
        /\ sessions[w] # Idle
        /\ sessions[w].id = 2
        /\ sessions[w].at < leads[1].aktualisiert_am
        /\ sessions[w].lead = leads[2]
        /\ last = Response("activate", 1, 200, <<>>)
        /\ leads[1].status = AKTIVIERT
====
